---- MODULE Spec2Model ----
(***************************************************************************)
(* Verification model of the fourth-down-analysis scripts.                 *)
(*                                                                         *)
(* Every script of the repository is a sequential batch program: it reads  *)
(* season files, filters the rows, counts, and reports.  A script is       *)
(* modelled as a small state machine: one action per call of a per-season  *)
(* function (the season file it reads is the action's input), one action   *)
(* for the roll-up that follows the loop.  A table is a sequence of play   *)
(* rows, a boolean-mask selection is SelectSeq, len() is Len.              *)
(*                                                                         *)
(* A rate is a Python float computed as s / d * 100; it is modelled as the *)
(* exact fraction [num, den] so that equalities and bounds on rates are    *)
(* decided without rounding.                                               *)
(***************************************************************************)
EXTENDS Integers, Sequences, FiniteSets, Bags, TLC

VARIABLES
    entry,       \* the function of the repository that is being run
    pc,          \* position in the function being run
    idx,         \* index in the list of years of the next year to analyze
    csv,         \* what read_csv found for the season of a single call
    result,      \* what the last per-season function call returned
    results,     \* the list `results` of the era / main loop
    era_result,  \* what analyze_era_conversions returned
    totals,      \* the totals that a main computes after its loop
    loaded,      \* bag of all rows read so far from the season files
    log,         \* one entry per call of the per-season function, in call order
    rank_args,   \* the arguments of the call of a ranking function
    sorted_df,   \* the table sorted_df of the ranking function, rank column added
    arg_df,      \* the table a function is called on (its argument df)
    fs           \* the files and directories a script finds and leaves on disk

vars == <<entry, pc, idx, csv, result, results, era_result, totals, loaded, log,
          rank_args, sorted_df, arg_df, fs>>

----------------------------------------------------------------------------
(* Bounds of the model.                                                    *)

\* Number of seasons in the list of years of an era.
NumYears == 2
\* Largest number of rows of a season file.
MaxRows == 2
\* Largest number of quarterbacks in a peer table.
MaxPeers == 4

----------------------------------------------------------------------------
(* Values.                                                                 *)

None == [kind |-> "None"]

\* A float, kept as the exact fraction num / den (den > 0).
Float(num, den) == [kind |-> "float", num |-> num, den |-> den]

\* Python raises ZeroDivisionError when a count is divided by a zero count.
ZeroDivisionError == [kind |-> "ZeroDivisionError"]

\* A wpa cell: a number (hundredths of a win), or NaN where the feed has none.
Wpa(v) == [isna |-> FALSE, v |-> v]
NaN == [isna |-> TRUE, v |-> 0]

\* pandas reports a missing season file by raising FileNotFoundError.
FileNotFound == [kind |-> "FileNotFoundError"]

\* A play of a season file (the columns the fourth-down scripts read).
Play(season_type, down, play_type, posteam, first_down, touchdown, yardline_100, wpa) ==
    [season_type |-> season_type, down |-> down, play_type |-> play_type,
     posteam |-> posteam, first_down |-> first_down, touchdown |-> touchdown,
     yardline_100 |-> yardline_100, wpa |-> wpa]

\* The plays a season file is made of: Ravens go-for-it plays in each of the
\* three field zones (converted by first down, failed, converted by
\* touchdown), an opponent's go-for-it play, a Ravens punt on fourth down, and
\* a Ravens go-for-it play of the postseason.
PlayList ==
    << Play("REG",  4, "run",  "BAL", 1, 0, 51, Wpa(3)),
       Play("REG",  4, "pass", "BAL", 0, 0, 50, Wpa(-2)),
       Play("REG",  4, "pass", "BAL", 0, 1, 20, NaN),
       Play("REG",  4, "pass", "PIT", 1, 0, 35, Wpa(4)),
       Play("REG",  4, "punt", "BAL", 0, 0, 70, Wpa(1)),
       Play("POST", 4, "run",  "BAL", 1, 0, 21, Wpa(5)) >>

Plays == { PlayList[k] : k \in DOMAIN PlayList }

\* Every season file of at most MaxRows rows.
Tables == UNION { [1..n -> Plays] : n \in 0..MaxRows }

\* What read_csv may find for a season: the file, or no file.
Files == { [kind |-> "table", rows |-> t] : t \in Tables } \cup { FileNotFound }

\* The season files of an era are taken up to the order of their rows (one
\* file per bag of rows, its rows in the order of PlayList): the era totals
\* are sums of len() of mask selections, which the single calls on Files
\* exercise in every row order.
OrderedTables ==
    UNION { { [i \in 1..n |-> PlayList[s[i]]] :
                s \in { t \in [1..n -> DOMAIN PlayList] :
                          \A i \in 1..(n - 1) : t[i] <= t[i + 1] } } :
            n \in 0..MaxRows }

EraFiles == { [kind |-> "table", rows |-> t] : t \in OrderedTables } \cup { FileNotFound }

\* The list of years of the era under analysis.
years == [i \in 1..NumYears |-> 2007 + i]

----------------------------------------------------------------------------
(* fourthDownConversionAnalysis.py                                         *)

\* df[df['season_type'] == 'REG']
RegularSeason(df) == SelectSeq(df, LAMBDA r : r.season_type = "REG")

\* Every fourth-down play, whatever its type.
FourthDownAttempts_any_play(df) == SelectSeq(df, LAMBDA r : r.down = 4)

\* df[(df['down'] == 4) & (df['play_type'].isin(['run', 'pass']))]
FourthDownAttempts(df) ==
    SelectSeq(df, LAMBDA r : r.down = 4 /\ r.play_type \in {"run", "pass"})

\* t[t['posteam'] == 'BAL']
RavensAttempts(t) == SelectSeq(t, LAMBDA r : r.posteam = "BAL")

\* t[(t['first_down'] == 1) | (t['touchdown'] == 1)]
Conversions(t) == SelectSeq(t, LAMBDA r : r.first_down = 1 \/ r.touchdown = 1)

\* A rate left as a fraction of 1: the `* 100` forgotten.
Rate_not_scaled(s, d) == IF d > 0 THEN Float(s, d) ELSE Float(0, 1)

\* A rate without its guard: the division is made whatever d is.
Rate_unguarded(s, d) == IF d = 0 THEN ZeroDivisionError ELSE Float(s * 100, d)

\* (s / d * 100) if d > 0 else 0
Rate(s, d) == IF d > 0 THEN Float(s * 100, d) ELSE Float(0, 1)

\* ravens_attempts[ravens_attempts['yardline_100'] >= 51]
OwnTerritory(t) == SelectSeq(t, LAMBDA r : r.yardline_100 >= 51)

\* ravens_attempts[(yardline_100 > 20) & (yardline_100 < 51)]
OppTerritory(t) == SelectSeq(t, LAMBDA r : r.yardline_100 > 20 /\ r.yardline_100 < 51)

\* A red zone that stops short of the 20-yard line.
RedZone_inside_20(t) == SelectSeq(t, LAMBDA r : r.yardline_100 < 20)

\* ravens_attempts[ravens_attempts['yardline_100'] <= 20]
RedZone(t) == SelectSeq(t, LAMBDA r : r.yardline_100 <= 20)

\* One entry of field_position_data.
ZoneStats(zone) ==
    [attempts    |-> Len(zone),
     conversions |-> Len(Conversions(zone)),
     rate        |-> Rate(Len(Conversions(zone)), Len(zone))]

\* analyze_fourth_down_conversions(year), where `file` is what read_csv finds.
analyze_fourth_down_conversions(year, file) ==
    IF file = FileNotFound THEN None
    ELSE
    LET df == RegularSeason(file.rows)
        fourth_down_attempts == FourthDownAttempts(df)
        ravens_attempts == RavensAttempts(fourth_down_attempts)
        ravens_total == Len(ravens_attempts)
        ravens_converted == Len(Conversions(ravens_attempts))
        league_total == Len(fourth_down_attempts)
        league_converted == Len(Conversions(fourth_down_attempts))
    IN  IF Len(fourth_down_attempts) = 0 THEN None
        ELSE IF Len(ravens_attempts) = 0 THEN None
        ELSE [kind |-> "record",
              year |-> year,
              ravens_attempts |-> ravens_total,
              ravens_conversions |-> ravens_converted,
              ravens_rate |-> Rate(ravens_converted, ravens_total),
              league_attempts |-> league_total,
              league_conversions |-> league_converted,
              league_rate |-> Rate(league_converted, league_total),
              field_position |->
                  [own_territory |-> ZoneStats(OwnTerritory(ravens_attempts)),
                   opp_territory |-> ZoneStats(OppTerritory(ravens_attempts)),
                   red_zone      |-> ZoneStats(RedZone(ravens_attempts))]]

\* A total that is overwritten by each term instead of accumulated.
sum_overwritten(xs) == IF xs = <<>> THEN 0 ELSE xs[Len(xs)]

\* sum(xs), for a list of numbers.
RECURSIVE sum(_)
sum(xs) == IF xs = <<>> THEN 0 ELSE Head(xs) + sum(Tail(xs))

\* sum(r[key] for r in rs)
Sum(rs, key) == sum([i \in 1..Len(rs) |-> rs[i][key]])

\* One entry of field_position_summary:
\*     sum(r['field_position'][zone][key] for r in fp_results)
ZoneSummary(fp_results, zone) ==
    LET attempts ==
            sum([i \in 1..Len(fp_results) |-> fp_results[i].field_position[zone].attempts])
        conversions ==
            sum([i \in 1..Len(fp_results) |-> fp_results[i].field_position[zone].conversions])
    IN  [attempts |-> attempts, conversions |-> conversions,
         rate |-> Rate(conversions, attempts)]

\* The era record of analyze_era_conversions: totals over the records rs.
EraRecord(ys, rs) ==
    LET ravens_total_attempts == Sum(rs, "ravens_attempts")
        ravens_total_conversions == Sum(rs, "ravens_conversions")
        league_total_attempts == Sum(rs, "league_attempts")
        league_total_conversions == Sum(rs, "league_conversions")
    IN  [kind |-> "record",
         years |-> ys,
         ravens_attempts |-> ravens_total_attempts,
         ravens_conversions |-> ravens_total_conversions,
         ravens_rate |-> Rate(ravens_total_conversions, ravens_total_attempts),
         league_attempts |-> league_total_attempts,
         league_conversions |-> league_total_conversions,
         league_rate |-> Rate(league_total_conversions, league_total_attempts),
         field_position |->
             [own_territory |-> ZoneSummary(rs, "own_territory"),
              opp_territory |-> ZoneSummary(rs, "opp_territory"),
              red_zone      |-> ZoneSummary(rs, "red_zone")],
         year_results |-> rs]

\* An era that gives up as soon as one of its years has no record.
EraTotals_all_years_needed(ys, rs) ==
    IF Len(rs) < Len(ys) THEN None ELSE EraRecord(ys, rs)

\* analyze_era_conversions(years, era_name), after its loop has filled rs:
\*     if not results: return None
EraTotals(ys, rs) == IF rs = <<>> THEN None ELSE EraRecord(ys, rs)

----------------------------------------------------------------------------
(* fourthDownWpaAnalysis.py                                                *)

\* t['wpa'].fillna(0).sum()
WpaSum(t) == sum([i \in 1..Len(t) |-> IF t[i].wpa.isna THEN 0 ELSE t[i].wpa.v])

\* t[t['converted'] == False]
Failures(t) == SelectSeq(t, LAMBDA r : ~(r.first_down = 1 \/ r.touchdown = 1))

analyze_fourth_down_wpa_no_ravens_guard(year, file) ==
    IF file = FileNotFound THEN None
    ELSE
    LET df == RegularSeason(file.rows)
        fourth_down_attempts == FourthDownAttempts(df)
        ravens_attempts == RavensAttempts(fourth_down_attempts)
        successful_attempts == Conversions(ravens_attempts)
        failed_attempts == Failures(ravens_attempts)
        net_wpa == WpaSum(ravens_attempts)
    IN  IF Len(fourth_down_attempts) = 0 THEN None
        ELSE [kind |-> "record",
              year |-> year,
              total_attempts |-> Len(ravens_attempts),
              successful_conversions |-> Len(successful_attempts),
              failed_attempts |-> Len(failed_attempts),
              wpa_from_conversions |-> WpaSum(successful_attempts),
              wpa_from_failures |-> WpaSum(failed_attempts),
              net_wpa |-> net_wpa,
              avg_wpa_per_attempt |->
                  IF Len(ravens_attempts) > 0
                  THEN Float(net_wpa, Len(ravens_attempts)) ELSE Float(0, 1)]

\* analyze_fourth_down_wpa(year), where `file` is what read_csv finds.
analyze_fourth_down_wpa(year, file) ==
    IF file = FileNotFound THEN None
    ELSE
    LET df == RegularSeason(file.rows)
        fourth_down_attempts == FourthDownAttempts(df)
        ravens_attempts == RavensAttempts(fourth_down_attempts)
        successful_attempts == Conversions(ravens_attempts)
        failed_attempts == Failures(ravens_attempts)
        net_wpa == WpaSum(ravens_attempts)
    IN  IF Len(fourth_down_attempts) = 0 THEN None
        ELSE IF Len(ravens_attempts) = 0 THEN None
        ELSE [kind |-> "record",
              year |-> year,
              total_attempts |-> Len(ravens_attempts),
              successful_conversions |-> Len(successful_attempts),
              failed_attempts |-> Len(failed_attempts),
              wpa_from_conversions |-> WpaSum(successful_attempts),
              wpa_from_failures |-> WpaSum(failed_attempts),
              net_wpa |-> net_wpa,
              avg_wpa_per_attempt |->
                  IF Len(ravens_attempts) > 0
                  THEN Float(net_wpa, Len(ravens_attempts)) ELSE Float(0, 1)]

----------------------------------------------------------------------------
(* fourthDownScatterPlot.py                                                *)

\* df[(df['down'] == 4) & (df['posteam'] == 'BAL') & (df['play_type'].isin(['run', 'pass']))]
RavensGoForIt(df) ==
    SelectSeq(df, LAMBDA r : r.down = 4 /\ r.posteam = "BAL"
                             /\ r.play_type \in {"run", "pass"})

\* get_fourth_down_data(year), where `file` is what read_csv finds.
get_fourth_down_data(year, file) ==
    IF file = FileNotFound THEN None
    ELSE
    LET df == RegularSeason(file.rows)
        ravens_attempts == RavensGoForIt(df)
        total_attempts == Len(ravens_attempts)
        total_conversions == Len(Conversions(ravens_attempts))
    IN  IF Len(ravens_attempts) = 0 THEN None
        ELSE [kind |-> "record",
              year |-> year,
              attempts |-> total_attempts,
              conversions |-> total_conversions,
              conversion_rate |-> Rate(total_conversions, total_attempts)]

----------------------------------------------------------------------------
(* fourthDownAnalysis.py                                                   *)

\* The fourth downs of the Ravens narrowed to the plays on which they went for it.
RavensFourthDowns_go_for_it(df) ==
    SelectSeq(df, LAMBDA r : r.down = 4 /\ r.posteam = "BAL"
                             /\ r.play_type \in {"run", "pass"})

\* df[(df['down'] == 4) & (df['posteam'] == 'BAL')]
RavensFourthDowns(df) == SelectSeq(df, LAMBDA r : r.down = 4 /\ r.posteam = "BAL")

\* fourth_downs[play_type.isin(['run', 'pass']) & (play_type != 'no_play')]
GoForIt(t) ==
    SelectSeq(t, LAMBDA r : r.play_type \in {"run", "pass"} /\ r.play_type # "no_play")

\* analyze_fourth_down_attempts(year), where `file` is what read_csv finds.
analyze_fourth_down_attempts(year, file) ==
    IF file = FileNotFound THEN None
    ELSE
    LET df == RegularSeason(file.rows)
        fourth_downs == RavensFourthDowns(df)
        total_fourth_downs == Len(fourth_downs)
        total_attempts == Len(GoForIt(fourth_downs))
    IN  IF Len(fourth_downs) = 0 THEN None
        ELSE [kind |-> "record",
              year |-> year,
              total_fourth_downs |-> total_fourth_downs,
              attempts |-> total_attempts,
              attempt_rate |-> Rate(total_attempts, total_fourth_downs)]

----------------------------------------------------------------------------
(* The fourth-down scripts as a state machine.                             *)

\* The per-season functions, each run as a single call on one season.
SeasonFunctions ==
    {"analyze_fourth_down_conversions", "analyze_fourth_down_wpa",
     "get_fourth_down_data", "analyze_fourth_down_attempts"}

\* The functions of the fourth-down scripts that are run.
FourthDownEntries == {"analyze_era_conversions"} \cup SeasonFunctions

\* `if result:` -- a record is truthy, None is not.
Truthy(r) == r # None

\* The rows of a season file as a bag; a missing file has no rows.
RowsOf(file) ==
    IF file = FileNotFound THEN EmptyBag
    ELSE [r \in {file.rows[i] : i \in DOMAIN file.rows} |->
              Cardinality({i \in DOMAIN file.rows : file.rows[i] = r})]

\* What one call of a per-season function did: the year it was called for,
\* whether the season file was there, whether it returned a record.
Call(year, file, r) ==
    [year |-> year, found |-> file # FileNotFound, returned |-> r # None]

Init ==
    /\ entry \in FourthDownEntries
    /\ pc = "loop"
    /\ idx = 1
    /\ csv = None
    /\ result = None
    /\ results = <<>>
    /\ era_result = None
    /\ totals = None
    /\ loaded = EmptyBag
    /\ log = <<>>
    /\ rank_args = None
    /\ sorted_df = <<>>
    /\ arg_df = None
    /\ fs = None

\* One iteration of the loop of analyze_era_conversions:
\*     result = analyze_fourth_down_conversions(year)
\*     if result: results.append(result)
EraLoopStep ==
    /\ entry = "analyze_era_conversions"
    /\ pc = "loop"
    /\ idx <= Len(years)
    /\ \E file \in EraFiles :
        LET r == analyze_fourth_down_conversions(years[idx], file)
        IN  /\ result' = r
            /\ results' = IF Truthy(r) THEN Append(results, r) ELSE results
            /\ loaded' = loaded (+) RowsOf(file)
            /\ log' = Append(log, Call(years[idx], file, r))
    /\ idx' = idx + 1
    /\ UNCHANGED <<entry, pc, csv, era_result, totals, rank_args, sorted_df, arg_df, fs>>

\* The rest of analyze_era_conversions, once the loop is over.
EraReturn ==
    /\ entry = "analyze_era_conversions"
    /\ pc = "loop"
    /\ idx > Len(years)
    /\ era_result' = EraTotals(years, results)
    /\ pc' = "done"
    /\ UNCHANGED <<entry, idx, csv, result, results, totals, loaded, log, rank_args, sorted_df, arg_df, fs>>

\* A single call of one of the per-season functions.
SeasonCall ==
    /\ entry \in SeasonFunctions
    /\ pc = "loop"
    /\ \E file \in Files :
        /\ csv' = file
        /\ result' = CASE entry = "analyze_fourth_down_conversions" ->
                              analyze_fourth_down_conversions(years[idx], file)
                       [] entry = "analyze_fourth_down_wpa" ->
                              analyze_fourth_down_wpa(years[idx], file)
                       [] entry = "get_fourth_down_data" ->
                              get_fourth_down_data(years[idx], file)
                       [] entry = "analyze_fourth_down_attempts" ->
                              analyze_fourth_down_attempts(years[idx], file)
        /\ loaded' = loaded (+) RowsOf(file)
        /\ log' = Append(log, Call(years[idx], file, result'))
    /\ pc' = "done"
    /\ UNCHANGED <<entry, idx, results, era_result, totals, rank_args, sorted_df, arg_df, fs>>

Next == EraLoopStep \/ EraReturn \/ SeasonCall

Spec == Init /\ [][Next]_vars

----------------------------------------------------------------------------
(* Properties of fourthDownConversionAnalysis.py                           *)

\* The rate is the float 100 * s / d.
RateIs(rate, s, d) ==
    /\ rate.kind = "float"
    /\ d > 0
    /\ rate.num * d = 100 * s * rate.den

\* The rate is a float of [0, 100].
RateInRange(rate) ==
    /\ rate.kind = "float"
    /\ 0 <= rate.num
    /\ rate.num <= 100 * rate.den

\* The counts and rates of a season record or of an era record are sound.
SoundRates(r) ==
    /\ 0 <= r.ravens_conversions /\ r.ravens_conversions <= r.ravens_attempts
    /\ 0 <= r.league_conversions /\ r.league_conversions <= r.league_attempts
    /\ RateIs(r.ravens_rate, r.ravens_conversions, r.ravens_attempts)
    /\ RateIs(r.league_rate, r.league_conversions, r.league_attempts)
    /\ RateInRange(r.ravens_rate)
    /\ RateInRange(r.league_rate)

\* C1: every season record returned by analyze_fourth_down_conversions, and
\* every era record returned by analyze_era_conversions, has
\* 0 <= conversions <= attempts for the Ravens and for the league, each rate
\* equal to 100 * conversions / attempts, and each rate in [0, 100].
C1_RatesSound ==
    entry \in {"analyze_era_conversions", "analyze_fourth_down_conversions"} =>
        /\ result # None => SoundRates(result)
        /\ \A i \in 1..Len(results) : SoundRates(results[i])
        /\ era_result # None => SoundRates(era_result)

\* An era of two seasons with records, the Ravens converting some but not all
\* of their attempts and the league having attempts of its own.
C1_Witness ==
    /\ entry = "analyze_era_conversions"
    /\ pc = "done"
    /\ era_result # None
    /\ Len(results) = 2
    /\ era_result.ravens_conversions > 0
    /\ era_result.ravens_conversions < era_result.ravens_attempts
    /\ era_result.league_attempts > era_result.ravens_attempts

\* The three zones of a field_position entry.
Zones(fp) == <<fp.own_territory, fp.opp_territory, fp.red_zone>>

\* Every zone rate is a number, and is 0 for a zone without attempts.
EmptyZonesRateZero(fp) ==
    \A z \in 1..3 :
        /\ Zones(fp)[z].rate.kind = "float"
        /\ Zones(fp)[z].attempts = 0 => Zones(fp)[z].rate.num = 0

\* C2: in a season record and in an era record, a field-position zone with
\* 0 attempts has a rate of exactly 0, and no rate is a division by zero,
\* whichever zones are empty.
C2_EmptyZoneRateZero ==
    entry \in {"analyze_era_conversions", "analyze_fourth_down_conversions"} =>
        /\ result # None => EmptyZonesRateZero(result.field_position)
        /\ era_result # None => EmptyZonesRateZero(era_result.field_position)

\* An era record with two empty zones and one zone with attempts.
C2_Witness ==
    /\ entry = "analyze_era_conversions"
    /\ pc = "done"
    /\ era_result # None
    /\ era_result.field_position.own_territory.attempts = 0
    /\ era_result.field_position.red_zone.attempts = 0
    /\ era_result.field_position.opp_territory.attempts > 0
    /\ result # None
    /\ result.field_position.own_territory.attempts = 0

\* The number of rows of the bag b that satisfy P.
CountWhere(b, P(_)) ==
    BagCardinality([r \in {x \in DOMAIN b : P(x)} |-> b[r]])

\* A regular-season fourth-down run or pass.
IsLeagueAttempt(r) ==
    r.season_type = "REG" /\ r.down = 4 /\ r.play_type \in {"run", "pass"}

\* A regular-season fourth-down run or pass of the Ravens.
IsRavensAttempt(r) == IsLeagueAttempt(r) /\ r.posteam = "BAL"

\* The play gained a first down or scored a touchdown.
IsConversion(r) == r.first_down = 1 \/ r.touchdown = 1

InOwnTerritory(r) == r.yardline_100 >= 51
InOppTerritory(r) == r.yardline_100 > 20 /\ r.yardline_100 < 51
InRedZone(r) == r.yardline_100 <= 20

\* The zone entry z holds the counts of the Ravens attempts of b in the zone.
ZoneCountsAre(z, b, InZone(_)) ==
    /\ z.attempts = CountWhere(b, LAMBDA r : IsRavensAttempt(r) /\ InZone(r))
    /\ z.conversions =
           CountWhere(b, LAMBDA r : IsRavensAttempt(r) /\ InZone(r) /\ IsConversion(r))

\* C3: the Ravens totals of the era record (attempts, conversions, and the
\* attempts and conversions of each zone) equal the counts obtained by
\* filtering once the rows of all the years' files taken together, a missing
\* file contributing no rows.
C3_RavensEraTotals ==
    (entry = "analyze_era_conversions" /\ pc = "done" /\ era_result # None) =>
        /\ era_result.ravens_attempts = CountWhere(loaded, IsRavensAttempt)
        /\ era_result.ravens_conversions =
               CountWhere(loaded, LAMBDA r : IsRavensAttempt(r) /\ IsConversion(r))
        /\ ZoneCountsAre(era_result.field_position.own_territory, loaded, InOwnTerritory)
        /\ ZoneCountsAre(era_result.field_position.opp_territory, loaded, InOppTerritory)
        /\ ZoneCountsAre(era_result.field_position.red_zone, loaded, InRedZone)

\* An era whose two seasons both have Ravens attempts, in more than one zone.
C3_Witness ==
    /\ entry = "analyze_era_conversions"
    /\ pc = "done"
    /\ era_result # None
    /\ Len(results) = 2
    /\ results[1].ravens_attempts = 2
    /\ results[2].ravens_attempts = 2
    /\ era_result.field_position.own_territory.attempts > 0
    /\ era_result.field_position.red_zone.conversions > 0

\* C4: the league totals of the era record equal the league counts obtained
\* by filtering once the regular-season rows of all the years' files taken
\* together, years in which only the league has attempts included.
C4_LeagueEraTotals ==
    (entry = "analyze_era_conversions" /\ pc = "done" /\ era_result # None) =>
        /\ era_result.league_attempts = CountWhere(loaded, IsLeagueAttempt)
        /\ era_result.league_conversions =
               CountWhere(loaded, LAMBDA r : IsLeagueAttempt(r) /\ IsConversion(r))

\* The season file is there and has no go-for-it play of the league.
NoLeagueAttempts(file) ==
    /\ file.kind = "table"
    /\ \A i \in DOMAIN file.rows : ~IsLeagueAttempt(file.rows[i])

\* The season file is there and has no go-for-it play of the Ravens.
NoRavensAttempts(file) ==
    /\ file.kind = "table"
    /\ \A i \in DOMAIN file.rows : ~IsRavensAttempt(file.rows[i])

\* C5: analyze_fourth_down_conversions, analyze_fourth_down_wpa and
\* get_fourth_down_data return None (and raise nothing) for a season whose
\* file is present and has no fourth-down go-for-it attempt left after
\* filtering, for the league or for the Ravens.
C5_NoAttemptsReturnsNone ==
    (/\ entry \in {"analyze_fourth_down_conversions", "analyze_fourth_down_wpa",
                   "get_fourth_down_data"}
     /\ pc = "done"
     /\ NoLeagueAttempts(csv) \/ NoRavensAttempts(csv)) =>
        result = None

\* A present file with plays in it, none of them a Ravens attempt, for which
\* the function returned None; the league went for it and the Ravens punted.
C5_Witness ==
    /\ entry = "analyze_fourth_down_wpa"
    /\ pc = "done"
    /\ csv.kind = "table"
    /\ Len(csv.rows) = 2
    /\ ~NoLeagueAttempts(csv)
    /\ NoRavensAttempts(csv)
    /\ \E i \in DOMAIN csv.rows : csv.rows[i].play_type = "punt"
    /\ result = None

\* C6 as claimed: analyze_fourth_down_attempts returns None whenever the
\* season (file present) has no Ravens go-for-it attempt, also when the Ravens
\* faced fourth downs and only punted or kicked.
C6_NoAttemptsReturnsNone ==
    (entry = "analyze_fourth_down_attempts" /\ pc = "done" /\ NoRavensAttempts(csv)) =>
        result = None

\* The season file is there and has no regular-season fourth down of the Ravens.
NoRavensFourthDowns(file) ==
    /\ file.kind = "table"
    /\ \A i \in DOMAIN file.rows :
           ~(/\ file.rows[i].season_type = "REG"
             /\ file.rows[i].down = 4
             /\ file.rows[i].posteam = "BAL")

\* C6 as amended: with the file present, analyze_fourth_down_attempts returns
\* None exactly when the season has no regular-season fourth-down play of the
\* Ravens of any play type; when the Ravens faced fourth downs and never went
\* for it, it returns a record with attempts = 0 and attempt_rate = 0.
C6_NoFourthDownsReturnsNone ==
    (entry = "analyze_fourth_down_attempts" /\ pc = "done" /\ csv.kind = "table") =>
        /\ result = None <=> NoRavensFourthDowns(csv)
        /\ (result # None /\ NoRavensAttempts(csv)) =>
               /\ result.attempts = 0
               /\ result.total_fourth_downs > 0
               /\ result.attempt_rate.kind = "float"
               /\ result.attempt_rate.num = 0

\* The Ravens faced a fourth down and punted: a record with 0 attempts.
C6_Witness ==
    /\ entry = "analyze_fourth_down_attempts"
    /\ pc = "done"
    /\ NoRavensAttempts(csv)
    /\ ~NoRavensFourthDowns(csv)
    /\ result # None
    /\ result.attempts = 0

\* The years of the calls that satisfy P, in call order.
RECURSIVE YearsWhere(_, _)
YearsWhere(calls, flag) ==
    IF calls = <<>> THEN <<>>
    ELSE (IF Head(calls)[flag] THEN <<Head(calls).year>> ELSE <<>>)
         \o YearsWhere(Tail(calls), flag)

\* C7: in analyze_era_conversions a year whose file is missing gets None from
\* analyze_fourth_down_conversions and is skipped, the years are all
\* processed, in list order, whichever files are missing, and the era result
\* is None if and only if no year produced a record.
C7_MissingYearSkipped ==
    entry = "analyze_era_conversions" =>
        /\ \A i \in 1..Len(log) : ~log[i].found => ~log[i].returned
        /\ \A i \in 1..Len(log) : log[i].year = years[i]
        /\ [i \in 1..Len(results) |-> results[i].year] = YearsWhere(log, "returned")
        /\ pc = "done" =>
               /\ Len(log) = Len(years)
               /\ era_result = None <=> \A i \in 1..Len(log) : ~log[i].returned
               /\ era_result # None => era_result.year_results = results

\* An era whose first year has no file and whose last year has a record.
C7_Witness ==
    /\ entry = "analyze_era_conversions"
    /\ pc = "done"
    /\ ~log[1].found
    /\ log[Len(years)].returned
    /\ era_result # None
    /\ Len(results) < Len(years)

\* The field-position zones that hold a play with the ball yardline_100
\* yards from the goal line: own territory (51..99), opponent territory
\* (21..50), red zone (1..20).
FieldZonesOf(r) ==
    { z \in {"own_territory", "opp_territory", "red_zone"} :
        CASE z = "own_territory" -> r.yardline_100 \in 51..99
          [] z = "opp_territory" -> r.yardline_100 \in 21..50
          [] z = "red_zone" -> r.yardline_100 \in 1..20 }

\* The zone entries of fp add up to the given attempts and conversions.
ZonesAddUpTo(fp, attempts, conversions) ==
    /\ fp.own_territory.attempts + fp.opp_territory.attempts + fp.red_zone.attempts
           = attempts
    /\ fp.own_territory.conversions + fp.opp_territory.conversions
           + fp.red_zone.conversions = conversions

----------------------------------------------------------------------------
(* wpaAnalysis.py                                                          *)

\* A play of a season file (the columns wpaAnalysis reads).  special is the
\* value of the play in the special-teams column that the file has.
PhasePlay(season_type, posteam, defteam, wpa, special) ==
    [season_type |-> season_type, posteam |-> posteam, defteam |-> defteam,
     wpa |-> wpa, special |-> special]

\* The plays a season file is made of: a Ravens offensive play, a Ravens
\* defensive play, a special-teams play with the Ravens in possession and one
\* with the opponent in possession, a play of the postseason, and a play
\* without wpa.
PhasePlays ==
    { PhasePlay("REG",  "BAL", "PIT", Wpa(3),  0),
      PhasePlay("REG",  "PIT", "BAL", Wpa(-2), 0),
      PhasePlay("REG",  "BAL", "PIT", Wpa(1),  1),
      PhasePlay("REG",  "PIT", "BAL", Wpa(4),  1),
      PhasePlay("POST", "BAL", "PIT", Wpa(5),  0),
      PhasePlay("REG",  "BAL", "PIT", NaN,     0) }

\* The name of the special-teams column of a file.
SpecialColumns == {"special_teams_play", "special"}

\* What read_csv may find for a season: the file, or no file.
PhaseFiles ==
    { [kind |-> "table", special_column |-> c, rows |-> t] :
        c \in SpecialColumns,
        t \in UNION { [1..n -> PhasePlays] : n \in 0..MaxRows } }
    \cup { FileNotFound }

\* df[df['wpa'].notna()]
WpaNotNa(df) == SelectSeq(df, LAMBDA r : ~r.wpa.isna)

\* t[t['posteam'] == 'BAL']['wpa'].sum()
OffenseWpa(t) == WpaSum(SelectSeq(t, LAMBDA r : r.posteam = "BAL"))

\* t[t['defteam'] == 'BAL']['wpa'].sum()
DefenseWpa(t) == WpaSum(SelectSeq(t, LAMBDA r : r.defteam = "BAL"))

\* df_wpa[(df_wpa[column] == 1) & ((posteam == 'BAL') | (defteam == 'BAL'))],
\* the column being special_teams_play if the file has it and special if not.
SpecialTeams(t) ==
    SelectSeq(t, LAMBDA r : r.special = 1 /\ (r.posteam = "BAL" \/ r.defteam = "BAL"))

\* The function with the offense and defense totals left as first summed,
\* special-teams plays included.
analyze_wpa_by_phase_unadjusted(year, file) ==
    IF file = FileNotFound THEN FileNotFound
    ELSE
    LET df_wpa == WpaNotNa(RegularSeason(file.rows))
        offense_wpa == OffenseWpa(df_wpa)
        defense_wpa == 0 - DefenseWpa(df_wpa)
        special_teams == SpecialTeams(df_wpa)
        special_teams_wpa == OffenseWpa(special_teams) - DefenseWpa(special_teams)
    IN  [kind |-> "record",
         year |-> year,
         offense_wpa |-> offense_wpa,
         defense_wpa |-> defense_wpa,
         special_teams_wpa |-> special_teams_wpa,
         total_wpa |-> offense_wpa + defense_wpa + special_teams_wpa]

\* analyze_wpa_by_phase(year), where `file` is what read_csv finds: the
\* function has no try around read_csv, so FileNotFoundError leaves it.
analyze_wpa_by_phase(year, file) ==
    IF file = FileNotFound THEN FileNotFound
    ELSE
    LET df == RegularSeason(file.rows)
        df_wpa == WpaNotNa(df)
        offense_wpa == OffenseWpa(df_wpa)
        defense_wpa == 0 - DefenseWpa(df_wpa)
        special_teams == SpecialTeams(df_wpa)
        st_offense == OffenseWpa(special_teams)
        st_defense == 0 - DefenseWpa(special_teams)
        special_teams_wpa == st_offense + st_defense
        offense_wpa_adjusted == offense_wpa - st_offense
        defense_wpa_adjusted == defense_wpa - st_defense
    IN  [kind |-> "record",
         year |-> year,
         offense_wpa |-> offense_wpa_adjusted,
         defense_wpa |-> defense_wpa_adjusted,
         special_teams_wpa |-> special_teams_wpa,
         total_wpa |-> offense_wpa_adjusted + defense_wpa_adjusted + special_teams_wpa]

\* The totals of main over the records rs.
PhaseTotals(rs) ==
    [kind |-> "record",
     total_offense_wpa |-> Sum(rs, "offense_wpa"),
     total_defense_wpa |-> Sum(rs, "defense_wpa"),
     total_st_wpa |-> Sum(rs, "special_teams_wpa"),
     total_wpa |-> Sum(rs, "total_wpa")]

InitWpaPhase ==
    /\ entry \in {"wpaAnalysis_main", "analyze_wpa_by_phase"}
    /\ pc = "loop"
    /\ idx = 1
    /\ csv = None
    /\ result = None
    /\ results = <<>>
    /\ era_result = None
    /\ totals = None
    /\ loaded = EmptyBag
    /\ log = <<>>
    /\ rank_args = None
    /\ sorted_df = <<>>
    /\ arg_df = None
    /\ fs = None

\* One iteration of the loop of main:
\*     result = analyze_wpa_by_phase(year)
\*     if result: results.append(result)
\* An exception that leaves analyze_wpa_by_phase leaves main as well: nothing
\* in the script catches it.
WpaMainLoopStep ==
    /\ entry = "wpaAnalysis_main"
    /\ pc = "loop"
    /\ idx <= Len(years)
    /\ \E file \in PhaseFiles :
        LET r == analyze_wpa_by_phase(years[idx], file)
        IN  /\ result' = r
            /\ log' = Append(log, Call(years[idx], file, r))
            /\ IF r = FileNotFound
               THEN /\ pc' = "uncaught"
                    /\ UNCHANGED <<idx, results>>
               ELSE /\ results' = IF Truthy(r) THEN Append(results, r) ELSE results
                    /\ idx' = idx + 1
                    /\ pc' = pc
    /\ UNCHANGED <<entry, csv, era_result, totals, loaded, rank_args, sorted_df, arg_df, fs>>

\* The totals of main, once the loop is over.
WpaMainTotals ==
    /\ entry = "wpaAnalysis_main"
    /\ pc = "loop"
    /\ idx > Len(years)
    /\ totals' = PhaseTotals(results)
    /\ pc' = "done"
    /\ UNCHANGED <<entry, idx, csv, result, results, era_result, loaded, log, rank_args, sorted_df, arg_df, fs>>

\* A single call analyze_wpa_by_phase(year) for the first year of the list;
\* csv is what its read_csv finds.
WpaPhaseCall ==
    /\ entry = "analyze_wpa_by_phase"
    /\ pc = "loop"
    /\ \E file \in PhaseFiles :
        /\ csv' = file
        /\ result' = analyze_wpa_by_phase(years[1], file)
    /\ pc' = "done"
    /\ UNCHANGED <<entry, idx, results, era_result, totals, loaded, log,
                   rank_args, sorted_df, arg_df, fs>>

NextWpaPhase == WpaMainLoopStep \/ WpaMainTotals \/ WpaPhaseCall

SpecWpaPhase == InitWpaPhase /\ [][NextWpaPhase]_vars

\* C8: when the file of one of the years is missing, analyze_wpa_by_phase
\* returns None, main skips the year, and main reaches its totals over the
\* other years instead of ending on an exception.
C8_MissingYearSkipped ==
    entry = "wpaAnalysis_main" =>
        /\ pc # "uncaught"
        /\ \A i \in 1..Len(log) : ~log[i].found => (result = None \/ i < Len(log))
        /\ pc = "done" => Len(log) = Len(years)

\* The phases of a play for the Ravens: none if they are on neither side.
PhasesOf(r) ==
    { ph \in {"offense", "defense", "special_teams"} :
        CASE ph = "offense" -> r.posteam = "BAL" /\ r.special # 1
          [] ph = "defense" -> r.defteam = "BAL" /\ r.special # 1
          [] ph = "special_teams" ->
                r.special = 1 /\ (r.posteam = "BAL" \/ r.defteam = "BAL") }

\* The wpa of the play r as the Ravens gain it: the play's wpa when they
\* have the ball, its opposite when they defend.
RavensWpa(r) ==
    (IF r.posteam = "BAL" THEN r.wpa.v ELSE 0)
        - (IF r.defteam = "BAL" THEN r.wpa.v ELSE 0)

\* The Ravens' wpa over the plays of t that are in the set S.
RECURSIVE WpaOver(_, _)
WpaOver(t, S) ==
    IF t = <<>> THEN 0
    ELSE (IF Head(t) \in S THEN RavensWpa(Head(t)) ELSE 0) + WpaOver(Tail(t), S)

\* The regular-season plays with a wpa of the file the call read.
CountedPlays == WpaNotNa(RegularSeason(csv.rows))

\* C21: in the record analyze_wpa_by_phase returns, every counted play of
\* the Ravens is in exactly one phase, each phase total is the Ravens' wpa
\* over the plays of that phase alone (offense and defense without the
\* special-teams plays), and total_wpa is the wpa of the plays with the
\* Ravens in possession minus the wpa of the plays with the Ravens defending.
C21_PhasesPartitionWpa ==
    (entry = "analyze_wpa_by_phase" /\ result # None /\ result # FileNotFound) =>
        /\ \A i \in 1..Len(CountedPlays) :
              LET r == CountedPlays[i]
              IN  Cardinality(PhasesOf(r)) =
                    IF r.posteam = "BAL" \/ r.defteam = "BAL" THEN 1 ELSE 0
        /\ result.offense_wpa =
              WpaOver(CountedPlays, { r \in PhasePlays : PhasesOf(r) = {"offense"} })
        /\ result.defense_wpa =
              WpaOver(CountedPlays, { r \in PhasePlays : PhasesOf(r) = {"defense"} })
        /\ result.special_teams_wpa =
              WpaOver(CountedPlays, { r \in PhasePlays : PhasesOf(r) = {"special_teams"} })
        /\ result.total_wpa = WpaOver(CountedPlays, PhasePlays)
        /\ result.total_wpa =
              result.offense_wpa + result.defense_wpa + result.special_teams_wpa

\* A season of an offensive play and a special-teams play that the opponent
\* returns: the offense total leaves the special-teams play out.
C21_Witness ==
    /\ entry = "analyze_wpa_by_phase"
    /\ result # None /\ result # FileNotFound
    /\ csv.rows = << PhasePlay("REG", "BAL", "PIT", Wpa(3), 0),
                     PhasePlay("REG", "PIT", "BAL", Wpa(4), 1) >>
    /\ result.offense_wpa = 3
    /\ result.defense_wpa = 0
    /\ result.special_teams_wpa = -4
    /\ result.total_wpa = -1

----------------------------------------------------------------------------
(* Ranking against a peer group: passingStatsAnalysis.py,                  *)
(* pressureAnalysis.py, redZoneAnalysis.py, twoMinuteDrillAnalysis.py      *)

\* The values of the statistic a peer table is ranked by.
StatValues == {50, 55, 60, 65, 70}

\* The quarterbacks of a peer table, and one who may be in none.
QbName(i) == <<"QB", i>>
QbNames == { QbName(i) : i \in 1..(MaxPeers + 1) }

\* The peer tables: one row per quarterback, each with his statistic.
PeerTables ==
    UNION { { [i \in 1..n |-> [qb_name |-> QbName(i), stat |-> v[i]]] :
                v \in [1..n -> StatValues] } :
            n \in 0..MaxPeers }

\* A sort that ignores the direction asked for and always puts the highest first.
InSortOrder_descending_only(a, b, ascending) == a.stat >= b.stat

\* The row a comes before the row b in the sort, or the sort may put either first.
InSortOrder(a, b, ascending) ==
    IF ascending THEN a.stat <= b.stat ELSE a.stat >= b.stat

\* The orders in which a sort may return the rows of df whose indices are in
\* S: a row that no other row of S must precede comes first.
RECURSIVE SortedOrders(_, _, _)
SortedOrders(df, S, ascending) ==
    IF S = {} THEN {<<>>}
    ELSE UNION { { <<df[k]>> \o rest : rest \in SortedOrders(df, S \ {k}, ascending) } :
                 k \in { i \in S : \A j \in S : InSortOrder(df[i], df[j], ascending) } }

\* stats_df.sort_values(by=stat_column, ascending=ascending): the orders of
\* the rows that the sort may return.  Rows with equal values come out in an
\* order that the default sort does not fix.
SortValues(df, ascending) == SortedOrders(df, DOMAIN df, ascending)

\* Ranks that start at 0: range(len(sorted_df)).
WithRank_from_zero(df) ==
    [i \in 1..Len(df) |-> [qb_name |-> df[i].qb_name, stat |-> df[i].stat, rank |-> i - 1]]

\* sorted_df['rank'] = range(1, len(sorted_df) + 1)
WithRank(df) ==
    [i \in 1..Len(df) |-> [qb_name |-> df[i].qb_name, stat |-> df[i].stat, rank |-> i]]

\* What a ranking function returns, once sorted_df has its rank column:
\*     qb_row = sorted_df[sorted_df['qb_name'] == qb_name]
\*     if len(qb_row) > 0: return int(qb_row.iloc[0]['rank']), len(sorted_df)
\*     return None, len(sorted_df)
RankReturn(ranked, qb_name) ==
    LET qb_row == SelectSeq(ranked, LAMBDA r : r.qb_name = qb_name)
    IN  IF Len(qb_row) > 0
        THEN [kind |-> "record", rank |-> qb_row[1].rank, total |-> Len(ranked)]
        ELSE [kind |-> "record", rank |-> None, total |-> Len(ranked)]

\* The outcomes of a ranking function: for each order the sort may return,
\* the table sorted_df with its rank column and the pair returned.  The peer
\* tables of the model have one statistic, which is the column ranked by.
RankOutcomes(stats_df, qb_name, ascending) ==
    { [sorted_df |-> WithRank(sorted),
       returned  |-> RankReturn(WithRank(sorted), qb_name)] :
        sorted \in SortValues(stats_df, ascending) }

\* rank_qb_stats(stats_df, qb_name, stat_column, ascending)
rank_qb_stats(stats_df, qb_name, ascending) ==
    RankOutcomes(stats_df, qb_name, ascending)

\* rank_qb_pressure(stats_df, qb_name, stat_column, ascending)
rank_qb_pressure(stats_df, qb_name, ascending) ==
    RankOutcomes(stats_df, qb_name, ascending)

\* rank_qb_red_zone(stats_df, qb_name, stat_column, ascending)
rank_qb_red_zone(stats_df, qb_name, ascending) ==
    RankOutcomes(stats_df, qb_name, ascending)

\* rank_qb_two_minute(stats_df, qb_name, stat_column, ascending)
rank_qb_two_minute(stats_df, qb_name, ascending) ==
    RankOutcomes(stats_df, qb_name, ascending)

RankFunctions ==
    {"rank_qb_stats", "rank_qb_pressure", "rank_qb_red_zone", "rank_qb_two_minute"}

InitRank ==
    /\ entry \in RankFunctions
    /\ pc = "call"
    /\ idx = 1
    /\ csv = None
    /\ result = None
    /\ results = <<>>
    /\ era_result = None
    /\ totals = None
    /\ loaded = EmptyBag
    /\ log = <<>>
    /\ rank_args \in { [stats_df |-> t, qb_name |-> q, ascending |-> a] :
                         t \in PeerTables, q \in QbNames, a \in BOOLEAN }
    /\ sorted_df = <<>>
    /\ arg_df = None
    /\ fs = None

\* A call of one of the ranking functions.
RankCall ==
    /\ entry \in RankFunctions
    /\ pc = "call"
    /\ LET a == rank_args
           outcomes ==
               CASE entry = "rank_qb_stats" ->
                        rank_qb_stats(a.stats_df, a.qb_name, a.ascending)
                 [] entry = "rank_qb_pressure" ->
                        rank_qb_pressure(a.stats_df, a.qb_name, a.ascending)
                 [] entry = "rank_qb_red_zone" ->
                        rank_qb_red_zone(a.stats_df, a.qb_name, a.ascending)
                 [] entry = "rank_qb_two_minute" ->
                        rank_qb_two_minute(a.stats_df, a.qb_name, a.ascending)
       IN  \E out \in outcomes :
               /\ sorted_df' = out.sorted_df
               /\ result' = out.returned
    /\ pc' = "done"
    /\ UNCHANGED <<entry, idx, csv, results, era_result, totals, loaded, log, rank_args, arg_df, fs>>

NextRank == RankCall

SpecRank == InitRank /\ [][NextRank]_vars

\* The value x is strictly better than y in the direction of the ranking.
StrictlyBetter(x, y, ascending) == IF ascending THEN x < y ELSE x > y

\* The rows of the peer table of the call that are the subject's.
SubjectRows == { i \in DOMAIN rank_args.stats_df :
                   rank_args.stats_df[i].qb_name = rank_args.qb_name }

\* C9: for the four ranking functions, with the subject in the peer table: a
\* subject whose value is strictly better than every other peer's (strictly
\* highest when ascending=False, strictly lowest when ascending=True) gets
\* rank 1, and one whose value is strictly worse than every other peer's gets
\* a rank equal to the number of peers.
C9_BestFirstWorstLast ==
    (entry \in RankFunctions /\ pc = "done") =>
        \A i \in SubjectRows :
            LET df == rank_args.stats_df
                others == DOMAIN df \ {i}
            IN  /\ (\A j \in others :
                       StrictlyBetter(df[i].stat, df[j].stat, rank_args.ascending))
                   => result.rank = 1
                /\ (\A j \in others :
                       StrictlyBetter(df[j].stat, df[i].stat, rank_args.ascending))
                   => result.rank = Len(df)

\* A lower-is-better ranking of a full table in which the subject has the
\* strictly highest value, two other peers being tied: the subject is last.
C9_Witness ==
    /\ entry = "rank_qb_pressure"
    /\ pc = "done"
    /\ rank_args.ascending
    /\ Len(rank_args.stats_df) = MaxPeers
    /\ SubjectRows = {2}
    /\ \A j \in DOMAIN rank_args.stats_df \ {2} :
           rank_args.stats_df[j].stat < rank_args.stats_df[2].stat
    /\ rank_args.stats_df[1].stat = rank_args.stats_df[3].stat
    /\ result.rank = MaxPeers

\* The values of the peer table of the call are pairwise distinct.
DistinctStats ==
    \A i, j \in DOMAIN rank_args.stats_df :
        i # j => rank_args.stats_df[i].stat # rank_args.stats_df[j].stat

\* C10: for rank_qb_stats with the subject in the table and the values
\* pairwise distinct, the rank is 1 + the number of peers with a strictly
\* better value, the group size is the number of rows of the peer table, and
\* the ranks given to the peers are exactly 1..n, one peer per rank.
C10_RankCountsBetterPeers ==
    (entry = "rank_qb_stats" /\ pc = "done" /\ DistinctStats /\ SubjectRows # {}) =>
        LET df == rank_args.stats_df
        IN  /\ \A i \in SubjectRows :
                   result.rank =
                       1 + Cardinality({ j \in DOMAIN df :
                               StrictlyBetter(df[j].stat, df[i].stat, rank_args.ascending) })
            /\ result.total = Len(df)
            /\ Len(sorted_df) = Len(df)
            /\ { sorted_df[k].rank : k \in DOMAIN sorted_df } = 1..Len(df)
            /\ \A i \in DOMAIN df :
                   Cardinality({ k \in DOMAIN sorted_df :
                                   sorted_df[k].qb_name = df[i].qb_name }) = 1

\* Values 65, 55, 70, 60 ranked highest first, the subject at 60: rank 3 of 4.
C10_Witness ==
    /\ entry = "rank_qb_stats"
    /\ pc = "done"
    /\ ~rank_args.ascending
    /\ [i \in DOMAIN rank_args.stats_df |-> rank_args.stats_df[i].stat] = <<65, 55, 70, 60>>
    /\ rank_args.qb_name = QbName(4)
    /\ result.rank = 3
    /\ result.total = 4

----------------------------------------------------------------------------
(* schemeEvolutionAnalysis.py: analyze_offensive_line.                     *)

\* Python raises UnboundLocalError when a local name is read on a path that
\* never assigned it.
UnboundLocalError == [kind |-> "UnboundLocalError"]

\* A play as analyze_offensive_line reads it.
LinePlay(posteam, qb_dropback, qb_hit, sack) ==
    [posteam |-> posteam, qb_dropback |-> qb_dropback, qb_hit |-> qb_hit, sack |-> sack]

\* The tables analyze_offensive_line is called on: every play of the Bears
\* or of an opponent, the three flags free.
LineTables ==
    UNION { [1..n -> { LinePlay(t, d, h, s) :
                         t \in {"CHI", "GB"}, d \in {0, 1}, h \in {0, 1}, s \in {0, 1} }] :
            n \in 0..MaxRows }

\* team_plays[team_plays['qb_dropback'] == 1] of df[df['posteam'] == team]
PassPlays(t, team) ==
    SelectSeq(SelectSeq(t, LAMBDA r : r.posteam = team), LAMBDA r : r.qb_dropback = 1)

\* analyze_offensive_line(df, team).  qb_hits and sacks are assigned in the
\* `if len(pass_plays) > 0:` branch only; the else branch sets the three
\* rates to 0 and the return statement then reads qb_hits.
analyze_offensive_line(t, team) ==
    LET pass_plays == PassPlays(t, team)
        n == Len(pass_plays)
        qb_hits == Sum(pass_plays, "qb_hit")
        sacks == Sum(pass_plays, "sack")
        clean_plays == n - qb_hits - sacks
    IN  IF n > 0
        THEN [kind |-> "record",
              total_dropbacks |-> n,
              pressure_rate |-> Float((qb_hits + sacks) * 100, n),
              pass_block_win_rate |-> Float(clean_plays * 100, n),
              sack_rate |-> Float(sacks * 100, n),
              qb_hits |-> qb_hits,
              sacks |-> sacks]
        ELSE UnboundLocalError

\* The function is called as analyze_offensive_line(df, 'CHI')
\* (OffensiveLineCall below); result is then what it returned.

\* The rate is the float 0.
RateIsZero(rate) == rate.kind = "float" /\ rate.num = 0

\* C11: analyze_offensive_line, called for a team with no dropback play,
\* returns pressure_rate, pass_block_win_rate and sack_rate equal to 0 and
\* raises no exception.
C11_NoDropbacksRatesZero ==
    (entry = "analyze_offensive_line" /\ pc = "done" /\ PassPlays(arg_df, "CHI") = <<>>) =>
        /\ result.kind = "record"
        /\ RateIsZero(result.pressure_rate)
        /\ RateIsZero(result.pass_block_win_rate)
        /\ RateIsZero(result.sack_rate)

----------------------------------------------------------------------------
(* fieldZoneHeatmap.py: categorize_field_zone, calculate_zone_stats.       *)

\* np.nan, as the value of a float that was not computed.
NanFloat == [kind |-> "nan"]

\* A cell of the columns air_yards and pass_location: a value, or NaN where
\* the feed has none.
Cell(v) == [isna |-> FALSE, v |-> v]
NoNumber == [isna |-> TRUE, v |-> 0]
NoText == [isna |-> TRUE, v |-> ""]

\* A play as calculate_zone_stats reads it.
ZonePlay(passer_player_name, complete_pass, incomplete_pass, qb_spike, air_yards, pass_location) ==
    [passer_player_name |-> passer_player_name, complete_pass |-> complete_pass,
     incomplete_pass |-> incomplete_pass, qb_spike |-> qb_spike,
     air_yards |-> air_yards, pass_location |-> pass_location]

\* The plays a table is made of: passes of the quarterback completed and
\* not, on the edges of the depth zones (0, 10, 20) and inside them, passes
\* with no depth or no side, a pass thrown away from the numbers, a spike,
\* another passer's completion and a sack.
ZonePlayList ==
    << ZonePlay("C.Williams", 1, 0, 0, Cell(25), Cell("left")),
       ZonePlay("C.Williams", 0, 1, 0, Cell(20), Cell("left")),
       ZonePlay("C.Williams", 1, 0, 0, Cell(10), Cell("middle")),
       ZonePlay("C.Williams", 1, 0, 0, Cell(0), Cell("right")),
       ZonePlay("C.Williams", 0, 1, 0, Cell(-3), Cell("middle")),
       ZonePlay("C.Williams", 1, 0, 0, NoNumber, Cell("left")),
       ZonePlay("C.Williams", 1, 0, 0, Cell(5), NoText),
       ZonePlay("C.Williams", 0, 1, 0, Cell(5), Cell("sideline")),
       ZonePlay("C.Williams", 0, 1, 1, Cell(5), Cell("left")),
       ZonePlay("J.Love", 1, 0, 0, Cell(15), Cell("right")),
       ZonePlay("C.Williams", 0, 0, 0, NoNumber, NoText) >>

\* The tables calculate_zone_stats is called on.
ZoneTables ==
    UNION { [1..n -> { ZonePlayList[i] : i \in DOMAIN ZonePlayList }] : n \in 0..MaxRows }

vertical_order == <<"Deep (20+)", "Intermediate (10-20)", "Short (0-10)", "Behind LOS">>
horizontal_order == <<"Left", "Center", "Right">>

\* `return None, None`: the play has no zone.
NoZone == <<"None", "None">>

horizontal_map(pass_location) ==
    CASE pass_location = "left" -> "Left"
      [] pass_location = "middle" -> "Center"
      [] pass_location = "right" -> "Right"

\* categorize_field_zone(row): the pair (vertical, horizontal).
categorize_field_zone(row) ==
    LET air_yards == row.air_yards
        pass_location == row.pass_location
        vertical == IF air_yards.v < 0 THEN "Behind LOS"
                    ELSE IF 0 <= air_yards.v /\ air_yards.v < 10 THEN "Short (0-10)"
                    ELSE IF 10 <= air_yards.v /\ air_yards.v < 20 THEN "Intermediate (10-20)"
                    ELSE "Deep (20+)"
    IN  IF air_yards.isna THEN NoZone
        ELSE IF pass_location.isna \/ pass_location.v \notin {"left", "middle", "right"}
             THEN NoZone
        ELSE <<vertical, horizontal_map(pass_location.v)>>

\* qb_passes: the quarterback's passes, complete or incomplete, spikes left
\* out, that have a zone (dropna on the two zone columns).
QbZonePasses(t, qb_name) ==
    SelectSeq(t, LAMBDA r : /\ r.passer_player_name = qb_name
                            /\ (r.complete_pass = 1 \/ r.incomplete_pass = 1)
                            /\ r.qb_spike # 1
                            /\ categorize_field_zone(r) # NoZone)

CompletionPct_zero_when_empty(completions, attempts) ==
    IF attempts > 0 THEN Float(completions * 100, attempts) ELSE Float(0, 1)

\* (completions / attempts * 100) if attempts > 0 else np.nan
CompletionPct(completions, attempts) ==
    IF attempts > 0 THEN Float(completions * 100, attempts) ELSE NanFloat

\* The entry of zone_stats for one zone.
ZoneEntry(qb_passes, vertical, horizontal) ==
    LET zone_passes == SelectSeq(qb_passes,
                           LAMBDA r : categorize_field_zone(r) = <<vertical, horizontal>>)
        attempts == Len(zone_passes)
        completions == Sum(zone_passes, "complete_pass")
    IN  [vertical |-> vertical,
         horizontal |-> horizontal,
         attempts |-> attempts,
         completions |-> completions,
         completion_pct |-> CompletionPct(completions, attempts)]

\* The keys of zone_stats: one per zone of the 4 x 3 grid.
ZoneKeys ==
    { <<vertical_order[i], horizontal_order[j]>> :
          i \in DOMAIN vertical_order, j \in DOMAIN horizontal_order }

\* calculate_zone_stats(df, qb_name): the dictionary zone_stats.
calculate_zone_stats(t, qb_name) ==
    LET qb_passes == QbZonePasses(t, qb_name)
    IN  [kind |-> "zone_stats",
         zones |-> [z \in ZoneKeys |-> ZoneEntry(qb_passes, z[1], z[2])]]

\* calculate_zone_stats is run by main of the script (SpecHeatmap below);
\* once main is past its first step, result is zone_stats.

\* The quarterback's pass attempts of the table that fall in the zone.
ZoneAttempts(z) ==
    { i \in DOMAIN arg_df :
          /\ arg_df[i].passer_player_name = "C.Williams"
          /\ (arg_df[i].complete_pass = 1 \/ arg_df[i].incomplete_pass = 1)
          /\ arg_df[i].qb_spike # 1
          /\ categorize_field_zone(arg_df[i]) = z }

----------------------------------------------------------------------------
(* pressureAnalysis.py: get_pressure_stats.                                *)

\* A play as get_pressure_stats reads it (epa and qb_scramble left out: no
\* percentage of the record reads them).
PressurePlay(passer_player_name, qb_dropback, flags) ==
    [passer_player_name |-> passer_player_name, qb_dropback |-> qb_dropback,
     qb_hit |-> flags[1], pass_attempt |-> flags[2], complete_pass |-> flags[3],
     sack |-> flags[4], interception |-> flags[5], fumble_lost |-> flags[6],
     success |-> flags[7]]

\* Every dropback of the quarterback (the seven flag columns each 0 or 1
\* independently of the others), a dropback of another passer and a play of
\* the quarterback that is no dropback.
PressurePlays ==
    { PressurePlay("C.Williams", 1, f) : f \in [1..7 -> {0, 1}] }
        \cup { PressurePlay("J.Love", 1, [i \in 1..7 |-> 1]),
               PressurePlay("C.Williams", 0, [i \in 1..7 |-> 1]) }

\* The tables get_pressure_stats is called on.
PressureTables == UNION { [1..n -> PressurePlays] : n \in 0..MaxRows }

\* get_pressure_stats(df, qb_name).
get_pressure_stats(t, qb_name) ==
    LET qb_dropbacks == SelectSeq(t, LAMBDA r : r.passer_player_name = qb_name
                                                /\ r.qb_dropback = 1)
        pressure_plays == SelectSeq(qb_dropbacks, LAMBDA r : r.qb_hit = 1)
        pass_attempts_under_pressure ==
            Len(SelectSeq(pressure_plays, LAMBDA r : r.pass_attempt = 1))
        completions_under_pressure == Sum(pressure_plays, "complete_pass")
        total_dropbacks == Len(qb_dropbacks)
        sacks == Sum(qb_dropbacks, "sack")
        turnovers == Sum(pressure_plays, "interception") + Sum(pressure_plays, "fumble_lost")
        success_under_pressure == Len(SelectSeq(pressure_plays, LAMBDA r : r.success = 1))
        all_pass_attempts == Len(SelectSeq(qb_dropbacks, LAMBDA r : r.pass_attempt = 1))
        all_completions == Sum(qb_dropbacks, "complete_pass")
    IN  IF Len(qb_dropbacks) = 0 THEN None
        ELSE [kind |-> "record",
              qb_name |-> qb_name,
              total_dropbacks |-> total_dropbacks,
              pressure_plays |-> Len(pressure_plays),
              pressure_rate |-> Rate(Len(pressure_plays), total_dropbacks),
              completion_pct_under_pressure |->
                  Rate(completions_under_pressure, pass_attempts_under_pressure),
              pass_attempts_under_pressure |-> pass_attempts_under_pressure,
              completions_under_pressure |-> completions_under_pressure,
              overall_completion_pct |-> Rate(all_completions, all_pass_attempts),
              sacks |-> sacks,
              sack_rate |-> Rate(sacks, total_dropbacks),
              turnovers_under_pressure |-> turnovers,
              turnover_worthy_rate |-> Rate(turnovers, Len(pressure_plays)),
              success_rate_pressure |-> Rate(success_under_pressure, Len(pressure_plays))]

\* The function is called as get_pressure_stats(df, 'C.Williams')
\* (PressureCall below); result is then what it returned.

\* C13: every percentage returned by get_pressure_stats (pressure_rate,
\* completion_pct_under_pressure, overall_completion_pct, sack_rate,
\* turnover_worthy_rate, success_rate_pressure) lies in [0, 100], the flag
\* columns taking values in {0, 1} independently per row.
C13_PercentagesInRange ==
    (entry = "get_pressure_stats" /\ pc = "done" /\ result # None) =>
        /\ RateInRange(result.pressure_rate)
        /\ RateInRange(result.completion_pct_under_pressure)
        /\ RateInRange(result.overall_completion_pct)
        /\ RateInRange(result.sack_rate)
        /\ RateInRange(result.turnover_worthy_rate)
        /\ RateInRange(result.success_rate_pressure)

----------------------------------------------------------------------------
(* fourthDownWpaAnalysis.py: main.                                         *)

\* x / y * 100 with no guard on y, as main writes it in its f-strings.
Percent(x, y) == IF y = 0 THEN ZeroDivisionError ELSE Float(x * 100, y)

\* The totals main computes from the list results (lines 104-110) and the
\* two percentages of its summary (lines 118-119).
WpaSummary(rs) ==
    LET total_attempts == Sum(rs, "total_attempts")
        total_conversions == Sum(rs, "successful_conversions")
        total_failures == Sum(rs, "failed_attempts")
        total_net_wpa == Sum(rs, "net_wpa")
    IN  [total_attempts |-> total_attempts,
         total_conversions |-> total_conversions,
         total_failures |-> total_failures,
         total_wpa_conversions |-> Sum(rs, "wpa_from_conversions"),
         total_wpa_failures |-> Sum(rs, "wpa_from_failures"),
         total_net_wpa |-> total_net_wpa,
         avg_wpa_per_attempt |->
             IF total_attempts > 0 THEN Float(total_net_wpa, total_attempts) ELSE Float(0, 1),
         conversions_pct |-> Percent(total_conversions, total_attempts),
         failures_pct |-> Percent(total_failures, total_attempts)]

\* The two percentages main prints for one year of the detailed breakdown
\* (lines 171-172).
WpaBreakdown(r) ==
    [year |-> r.year,
     conversions_pct |-> Percent(r.successful_conversions, r.total_attempts),
     failures_pct |-> Percent(r.failed_attempts, r.total_attempts)]

\* What main prints once its loop is over: "No data available" when results
\* is empty; otherwise the summary, then the breakdown year by year.  A
\* division by zero ends main where it is raised.
WpaReport(rs) ==
    IF rs = <<>> THEN [kind |-> "no data"]
    ELSE LET summary == WpaSummary(rs)
             breakdown == [i \in DOMAIN rs |-> WpaBreakdown(rs[i])]
         IN  IF ZeroDivisionError \in {summary.conversions_pct, summary.failures_pct}
             THEN ZeroDivisionError
             ELSE IF \E i \in DOMAIN rs :
                        ZeroDivisionError \in {breakdown[i].conversions_pct,
                                               breakdown[i].failures_pct}
             THEN ZeroDivisionError
             ELSE [kind |-> "report", summary |-> summary, breakdown |-> breakdown]

InitFourthDownWpa ==
    /\ entry = "fourthDownWpaAnalysis_main"
    /\ pc = "loop"
    /\ idx = 1
    /\ csv = None
    /\ result = None
    /\ results = <<>>
    /\ era_result = None
    /\ totals = None
    /\ loaded = EmptyBag
    /\ log = <<>>
    /\ rank_args = None
    /\ sorted_df = <<>>
    /\ arg_df = None
    /\ fs = None

\* One iteration of the loop of main:
\*     result = analyze_fourth_down_wpa(year)
\*     if result: results.append(result)
FourthDownWpaLoopStep ==
    /\ entry = "fourthDownWpaAnalysis_main"
    /\ pc = "loop"
    /\ idx <= Len(years)
    /\ \E file \in Files :
        LET r == analyze_fourth_down_wpa(years[idx], file)
        IN  /\ result' = r
            /\ results' = IF Truthy(r) THEN Append(results, r) ELSE results
            /\ log' = Append(log, Call(years[idx], file, r))
    /\ idx' = idx + 1
    /\ UNCHANGED <<entry, pc, csv, era_result, totals, loaded, rank_args, sorted_df,
                   arg_df, fs>>

\* The rest of main, once the loop is over.
FourthDownWpaReport ==
    /\ entry = "fourthDownWpaAnalysis_main"
    /\ pc = "loop"
    /\ idx > Len(years)
    /\ totals' = WpaReport(results)
    /\ pc' = IF totals' = ZeroDivisionError THEN "uncaught" ELSE "done"
    /\ UNCHANGED <<entry, idx, csv, result, results, era_result, loaded, log,
                   rank_args, sorted_df, arg_df, fs>>

NextFourthDownWpa == FourthDownWpaLoopStep \/ FourthDownWpaReport

SpecFourthDownWpa == InitFourthDownWpa /\ [][NextFourthDownWpa]_vars

\* C14: no division by zero occurs anywhere in fourthDownWpaAnalysis.main,
\* the unguarded divisions by total_attempts and by each year's
\* total_attempts included, whichever year files are missing, empty or
\* populated; and every per-year record has successful_conversions +
\* failed_attempts = total_attempts >= 1 and wpa_from_conversions +
\* wpa_from_failures = net_wpa.
C14_NoDivisionByZero ==
    entry = "fourthDownWpaAnalysis_main" =>
        /\ pc # "uncaught"
        /\ totals # ZeroDivisionError
        /\ \A i \in DOMAIN results :
               /\ results[i].successful_conversions + results[i].failed_attempts
                      = results[i].total_attempts
               /\ results[i].total_attempts >= 1
               /\ results[i].wpa_from_conversions + results[i].wpa_from_failures
                      = results[i].net_wpa
               /\ results[i].avg_wpa_per_attempt.kind = "float"
        /\ pc = "done" =>
               /\ totals.kind = "no data" <=> results = <<>>
               /\ totals.kind = "report" =>
                      /\ totals.summary.total_attempts >= 1
                      /\ totals.summary.avg_wpa_per_attempt.kind = "float"

\* A missing year, then a year with a conversion and a failure: the report
\* is printed with both percentages at 50.
C14_Witness ==
    /\ entry = "fourthDownWpaAnalysis_main"
    /\ pc = "done"
    /\ Len(log) = 2
    /\ ~log[1].found
    /\ log[2].returned
    /\ totals.kind = "report"
    /\ Len(results) = 1
    /\ results[1].successful_conversions = 1
    /\ results[1].failed_attempts = 1
    /\ RateIs(totals.summary.conversions_pct, 1, 2)
    /\ RateIs(totals.breakdown[1].failures_pct, 1, 2)

----------------------------------------------------------------------------
(* cleanGiantsData.py                                                      *)

\* A name that is not on disk.
Absent == [kind |-> "absent"]

\* A csv file on disk: its header and its rows.
CsvFile(columns, rows) == [kind |-> "csv", columns |-> columns, rows |-> rows]

\* A file name: prefix, stem, extension.  A stem is a number, written in
\* decimal; the stem 0 is a stem that is not a year.
FileName(prefix, stem) == <<prefix, stem, ".csv">>

\* The text of a cell of a column of whole numbers: <<>> for an empty cell,
\* <<n>> for the digits of n, <<n, ".0">> for n written as a float.
\* read_csv gives the column the dtype int64 when every cell is the digits
\* of a number, and float64 (empty cells NaN) when a cell is empty or is
\* written as a float.

\* The value read_csv gives a cell of such a column.
ParseNumber(text) == IF text = <<>> THEN NoNumber ELSE Cell(text[1])

\* The text to_csv writes for a value of a column of the dtype.
FormatNumber(c, dtype) ==
    IF c.isna THEN <<>>
    ELSE IF dtype = "int64" THEN <<c.v>> ELSE <<c.v, ".0">>

\* pd.read_csv(path) of a csv file on disk: the table in memory, with the
\* dtype it has given the column down.
read_csv(file) ==
    [columns |-> file.columns,
     dtype |-> IF \E i \in DOMAIN file.rows : Len(file.rows[i].down) # 1
               THEN "float64" ELSE "int64",
     rows |-> [i \in DOMAIN file.rows |->
                  [file.rows[i] EXCEPT !.down = ParseNumber(@)]]]

\* df.to_csv(path, index=False), for the rows of a table that was read with
\* the columns and the dtype given: the file it leaves on disk.
to_csv(columns, dtype, rows) ==
    CsvFile(columns,
            [i \in DOMAIN rows |-> [rows[i] EXCEPT !.down = FormatNumber(@, dtype)]])

GiantsYears == 2016..(2015 + NumYears)

\* The names glob finds for 'play_by_play_*.csv', when they are on disk.
GiantsInputs == { FileName("play_by_play_", y) : y \in GiantsYears \cup {0} }

\* The names f'pbpGiants{year}.csv' that the script may write.
GiantsOutputs == { FileName("pbpGiants", y) : y \in GiantsYears \cup {0} }

\* The rows of a play-by-play file, as far as the script reads them: a
\* Giants play on first down, and a kickoff of the opponent, which has no
\* down.  play_id numbers the rows of a file.
GiantsColumns == {"play_id", "posteam", "down"}

\* What may be on disk under an input name of a year: nothing, a
\* play-by-play file, or a csv file that has no posteam column.
GiantsContents ==
    { CsvFile(GiantsColumns,
              [i \in 1..n |-> [play_id |-> i, posteam |-> v[i].posteam,
                                down |-> v[i].down]]) :
          n \in 0..MaxRows,
          v \in [1..MaxRows -> { [posteam |-> "NYG", down |-> <<1>>],
                                 [posteam |-> "DAL", down |-> <<>>] }] }
        \cup { CsvFile({"play_id"}, <<>>), Absent }

\* The directory the script is started in: no output yet.
GiantsDisks ==
    { [n \in GiantsInputs \cup GiantsOutputs |->
          IF n \in GiantsOutputs THEN Absent
          ELSE IF n[2] = 0 THEN z ELSE c[n[2]]] :
        c \in [GiantsYears -> GiantsContents],
        z \in {Absent, CsvFile(GiantsColumns, <<>>)} }

\* sorted(glob.glob('play_by_play_*.csv')): the input names on disk, in
\* order.  The loop writes pbpGiants files only, so the list is the same
\* at every iteration.
RECURSIVE SortedNames(_)
SortedNames(names) ==
    IF names = {} THEN <<>>
    ELSE LET first == CHOOSE n \in names : \A m \in names : n[2] <= m[2]
         IN  <<first>> \o SortedNames(names \ {first})

csv_files(disk) == SortedNames({ n \in GiantsInputs : disk[n] # Absent })

\* re.search(r'play_by_play_(\d{4})\.csv', filename): a stem of four digits.
year_match(name) == name[1] = "play_by_play_" /\ 1000 <= name[2] /\ name[2] <= 9999

\* Every play of the file, whoever has the ball.
GiantsPlays_any_team(rows) == rows

\* df[df['posteam'] == GIANTS]
GiantsPlays(rows) == SelectSeq(rows, LAMBDA r : r.posteam = "NYG")

ProcessFile_break_on_error(disk, i) ==
    LET name == csv_files(disk)[i]
        file == disk[name]
    IN  IF ~year_match(name)
        THEN [disk |-> disk, event |-> "skipped", next |-> i + 1]
        ELSE IF "posteam" \notin file.columns
        THEN [disk |-> disk, event |-> "error", next |-> Len(csv_files(disk)) + 1]
        ELSE LET df == read_csv(file)
                 giants_plays == GiantsPlays(df.rows)
             IN  [disk |-> [disk EXCEPT ![FileName("pbpGiants", name[2])] =
                                to_csv(df.columns, df.dtype, giants_plays)],
                  event |-> "saved", next |-> i + 1]

\* The body of the loop for the i-th file of csv_files: the disk it leaves,
\* what it printed, and the index the loop goes on with.  df['posteam'] of a
\* file with no such column raises KeyError inside the try block; the
\* handler prints the error and continues.
ProcessFile(disk, i) ==
    LET name == csv_files(disk)[i]
        file == disk[name]
    IN  IF ~year_match(name)
        THEN [disk |-> disk, event |-> "skipped", next |-> i + 1]
        ELSE IF "posteam" \notin file.columns
        THEN [disk |-> disk, event |-> "error", next |-> i + 1]
        ELSE LET df == read_csv(file)
                 giants_plays == GiantsPlays(df.rows)
             IN  [disk |-> [disk EXCEPT ![FileName("pbpGiants", name[2])] =
                                to_csv(df.columns, df.dtype, giants_plays)],
                  event |-> "saved", next |-> i + 1]

InitCleanGiants ==
    /\ entry = "cleanGiantsData"
    /\ pc = "loop"
    /\ idx = 1
    /\ csv = None
    /\ result = None
    /\ results = <<>>
    /\ era_result = None
    /\ totals = None
    /\ loaded = EmptyBag
    /\ log = <<>>
    /\ rank_args = None
    /\ sorted_df = <<>>
    /\ arg_df = None
    /\ \E d \in GiantsDisks : fs = [found |-> d, disk |-> d]

\* One iteration of `for file_path in csv_files:`.
CleanGiantsStep ==
    /\ entry = "cleanGiantsData"
    /\ pc = "loop"
    /\ idx <= Len(csv_files(fs.disk))
    /\ LET r == ProcessFile(fs.disk, idx)
       IN  /\ fs' = [fs EXCEPT !.disk = r.disk]
           /\ log' = Append(log, [file |-> csv_files(fs.disk)[idx], event |-> r.event])
           /\ idx' = r.next
    /\ UNCHANGED <<entry, pc, csv, result, results, era_result, totals, loaded,
                   rank_args, sorted_df, arg_df>>

\* The loop is over: the script prints "Giants data cleaning complete!".
CleanGiantsBanner ==
    /\ entry = "cleanGiantsData"
    /\ pc = "loop"
    /\ idx > Len(csv_files(fs.disk))
    /\ pc' = "complete"
    /\ UNCHANGED <<entry, idx, csv, result, results, era_result, totals, loaded, log,
                   rank_args, sorted_df, arg_df, fs>>

NextCleanGiants == CleanGiantsStep \/ CleanGiantsBanner

SpecCleanGiants == InitCleanGiants /\ [][NextCleanGiants]_vars

\* C15 as stated: in cleanGiantsData an error other than a missing file
\* while processing one play_by_play_YYYY.csv (a file without the posteam
\* column) ends the script: no later file of the sorted list is processed
\* and no completion banner is printed.
C15_ErrorTerminates ==
    entry = "cleanGiantsData" =>
        \A i \in DOMAIN log :
            log[i].event = "error" => (i = Len(log) /\ pc # "complete")

\* C15, amended: in cleanGiantsData an error while processing one
\* play_by_play_YYYY.csv (a file without the posteam column) is caught: that
\* file gets no output, every other file of the sorted list is processed in
\* order, each well-formed one gets its pbpGiantsYYYY.csv holding exactly
\* its NYG rows, and the completion banner is printed.
C15_ErrorSkipsFile ==
    (entry = "cleanGiantsData" /\ pc = "complete") =>
        /\ [i \in DOMAIN log |-> log[i].file] = csv_files(fs.found)
        /\ \A y \in GiantsYears :
               LET in == fs.found[FileName("play_by_play_", y)]
                   out == fs.disk[FileName("pbpGiants", y)]
               IN  IF in # Absent /\ "posteam" \in in.columns
                   THEN /\ out # Absent
                        /\ out.columns = in.columns
                        /\ Len(out.rows) =
                               Cardinality({ k \in DOMAIN in.rows : in.rows[k].posteam = "NYG" })
                        /\ \A k \in DOMAIN out.rows : out.rows[k].posteam = "NYG"
                   ELSE out = Absent
        /\ \A n \in GiantsInputs : fs.disk[n] = fs.found[n]
        /\ \A i \in DOMAIN log :
               log[i].event = "error" <=>
                   (year_match(log[i].file) /\ "posteam" \notin fs.found[log[i].file].columns)

\* The first year's file has no posteam column, the second year's file has
\* a Giants play: the banner is printed and the second output is written.
C15_Witness ==
    /\ entry = "cleanGiantsData"
    /\ pc = "complete"
    /\ \E i \in DOMAIN log :
           /\ log[i].event = "error"
           /\ i < Len(log)
           /\ log[i + 1].event = "saved"
           /\ Len(fs.disk[FileName("pbpGiants", log[i + 1].file[2])].rows) >= 1
           /\ fs.disk[FileName("pbpGiants", log[i].file[2])] = Absent

\* The rows of a csv file as pandas reads them: the values of its cells.
ValuesOf(file) == read_csv(file).rows

\* C22 as stated: cleanGiantsData writes, for each input file named
\* play_by_play_YYYY.csv, an output pbpGiantsYYYY.csv that holds exactly the
\* input rows whose posteam is NYG, in their original order; it leaves
\* every input file unchanged and writes nothing for a file whose name
\* yields no four-digit year.
C22_EveryInputHasOutput ==
    (entry = "cleanGiantsData" /\ pc = "complete") =>
        /\ \A y \in GiantsYears :
               LET in == fs.found[FileName("play_by_play_", y)]
                   out == fs.disk[FileName("pbpGiants", y)]
               IN  in # Absent =>
                       /\ out # Absent
                       /\ ValuesOf(out) =
                              SelectSeq(ValuesOf(in), LAMBDA r : r.posteam = "NYG")
        /\ \A n \in GiantsInputs : fs.disk[n] = fs.found[n]
        /\ fs.disk[FileName("pbpGiants", 0)] = Absent

\* C22, amended: cleanGiantsData writes, for each input file named
\* play_by_play_YYYY.csv that has a posteam column, an output
\* pbpGiantsYYYY.csv with the input's header whose rows hold the values of
\* the input rows whose posteam is NYG, in their original order (a column
\* of whole numbers with an empty cell is written back as floats); an input
\* without the column gets no output; every input file is left unchanged
\* and nothing is written for a file whose name yields no four-digit year.
C22_ReadableInputHasOutput ==
    (entry = "cleanGiantsData" /\ pc = "complete") =>
        /\ \A y \in GiantsYears :
               LET in == fs.found[FileName("play_by_play_", y)]
                   out == fs.disk[FileName("pbpGiants", y)]
               IN  IF in # Absent /\ "posteam" \in in.columns
                   THEN /\ out # Absent
                        /\ out.columns = in.columns
                        /\ ValuesOf(out) =
                               SelectSeq(ValuesOf(in), LAMBDA r : r.posteam = "NYG")
                        /\ \A k \in DOMAIN out.rows :
                               out.rows[k].down =
                                   IF \A j \in DOMAIN in.rows : in.rows[j].down # <<>>
                                   THEN <<1>> ELSE <<1, ".0">>
                   ELSE out = Absent
        /\ \A n \in GiantsInputs : fs.disk[n] = fs.found[n]
        /\ fs.disk[FileName("pbpGiants", 0)] = Absent

\* The first year's file is a kickoff followed by a Giants play, the second
\* year's file has no posteam column, and a file whose name has no year is
\* on disk: the first output holds the second row alone, its down written
\* as a float.
C22_Witness ==
    /\ entry = "cleanGiantsData"
    /\ pc = "complete"
    /\ fs.found[FileName("play_by_play_", 0)] # Absent
    /\ fs.found[FileName("play_by_play_", 2016)] # Absent
    /\ fs.found[FileName("play_by_play_", 2016)].rows =
           << [play_id |-> 1, posteam |-> "DAL", down |-> <<>>],
              [play_id |-> 2, posteam |-> "NYG", down |-> <<1>>] >>
    /\ fs.found[FileName("play_by_play_", 2017)] = CsvFile({"play_id"}, <<>>)
    /\ fs.disk[FileName("pbpGiants", 2016)] # Absent
    /\ fs.disk[FileName("pbpGiants", 2016)].rows =
           << [play_id |-> 2, posteam |-> "NYG", down |-> <<1, ".0">>] >>

----------------------------------------------------------------------------
(* cleanRavensData.py                                                      *)

\* Number of the target years of cleanRavensData.main that are modelled
\* (2021 onwards); a year touches only its own two file names.
NumTargetYears == 1

\* Python raises KeyError when a column that the table lacks is selected.
KeyError == [kind |-> "KeyError"]

target_years == [i \in 1..NumTargetYears |-> 2020 + i]

\* The two names main looks for, for each year.
RavensNames ==
    { FileName(p, target_years[i]) :
          p \in {"pbpRavens", "play_by_play_"}, i \in DOMAIN target_years }

RavensColumns == {"game_id", "home_team", "away_team", "down"}

\* The rows of a play-by-play file, as far as the script reads them: a play
\* of a Ravens home game, of a Ravens away game and of a game of two other
\* teams (a kickoff, which has no down).
RavensRowList ==
    << [game_id |-> "2021_01_PIT_BAL", home_team |-> "BAL", away_team |-> "PIT",
        down |-> <<1>>],
       [game_id |-> "2021_02_BAL_KC", home_team |-> "KC", away_team |-> "BAL",
        down |-> <<1>>],
       [game_id |-> "2021_01_PIT_KC", home_team |-> "KC", away_team |-> "PIT",
        down |-> <<>>] >>

\* What may be on disk under a name: nothing, a play-by-play file, or a csv
\* file that has no home_team column.  The files have at most MaxRows rows
\* and are taken up to the order of their rows (one file per bag of rows,
\* its rows in the order of RavensRowList).
RavensContents ==
    { CsvFile(RavensColumns, [i \in 1..n |-> RavensRowList[s[i]]]) :
          n \in 0..MaxRows,
          s \in { t \in [1..MaxRows -> DOMAIN RavensRowList] :
                    \A i \in 1..(MaxRows - 1) : t[i] <= t[i + 1] } }
        \cup { CsvFile({"game_id"}, <<>>), Absent }

\* Every row of the file, whoever plays.
RavensGames_any_game(rows) == rows

\* df[(df['home_team'] == 'BAL') | (df['away_team'] == 'BAL')]
RavensGames(rows) == SelectSeq(rows, LAMBDA r : r.home_team = "BAL" \/ r.away_team = "BAL")

clean_ravens_games_keep_input(disk, input_file) ==
    IF disk[input_file] = Absent THEN FileNotFound
    ELSE
    LET df == read_csv(disk[input_file])
        ravens_df == RavensGames(df.rows)
    IN  IF ~({"home_team", "away_team"} \subseteq df.columns) THEN KeyError
        ELSE [kind |-> "cleaned",
              disk |-> disk,
              ravens_df |-> ravens_df,
              stats |-> [original_rows |-> Len(df.rows),
                         filtered_rows |-> Len(ravens_df),
                         rows_removed |-> Len(df.rows) - Len(ravens_df),
                         unique_games |->
                             Cardinality({ ravens_df[k].game_id : k \in DOMAIN ravens_df })]]

\* clean_ravens_games(input_file), called with output_file=None as main
\* calls it: the file is read, filtered and saved over the original file.
\* It returns the disk it leaves with (ravens_df, stats), or raises
\* FileNotFoundError (no such file) or KeyError (no such column).
clean_ravens_games(disk, input_file) ==
    IF disk[input_file] = Absent THEN FileNotFound
    ELSE
    LET df == read_csv(disk[input_file])
        ravens_df == RavensGames(df.rows)
        output_file == input_file
    IN  IF ~({"home_team", "away_team"} \subseteq df.columns) THEN KeyError
        ELSE [kind |-> "cleaned",
              disk |-> [disk EXCEPT ![output_file] =
                                        to_csv(df.columns, df.dtype, ravens_df)],
              ravens_df |-> ravens_df,
              stats |-> [original_rows |-> Len(df.rows),
                         filtered_rows |-> Len(ravens_df),
                         rows_removed |-> Len(df.rows) - Len(ravens_df),
                         unique_games |->
                             Cardinality({ ravens_df[k].game_id : k \in DOMAIN ravens_df })]]

\* A rename that gives way to a file already under the new name.
RenameAlt_keep_target(disk, alt_file, target_file) ==
    IF disk[alt_file] # Absent /\ disk[target_file] = Absent
    THEN [disk EXCEPT ![target_file] = disk[alt_file], ![alt_file] = Absent]
    ELSE [disk EXCEPT ![alt_file] = Absent]

\* alt_file.rename(target_file_new), when alt_file exists: the file goes
\* under the new name and replaces what was there.
RenameAlt(disk, alt_file, target_file) ==
    IF disk[alt_file] # Absent
    THEN [disk EXCEPT ![target_file] = disk[alt_file], ![alt_file] = Absent]
    ELSE disk

\* The file of the first year, for a call of clean_ravens_games on its own.
first_target_file == FileName("pbpRavens", target_years[1])

InitCleanRavens ==
    /\ entry \in {"cleanRavensData_main", "clean_ravens_games"}
    /\ pc = "loop"
    /\ idx = 1
    /\ csv = None
    /\ result = None
    /\ results = <<>>
    /\ era_result = None
    /\ totals = None
    /\ loaded = EmptyBag
    /\ log = <<>>
    /\ rank_args = None
    /\ sorted_df = <<>>
    /\ arg_df = None
    /\ \E d \in [RavensNames -> RavensContents] : fs = [found |-> d, disk |-> d]
    /\ entry = "clean_ravens_games" =>
           \A n \in RavensNames : n # first_target_file => fs.disk[n] = Absent

\* One iteration of `for year in target_years:`; all_stats is the list
\* results.  A KeyError raised in clean_ravens_games ends main.
CleanRavensStep ==
    /\ entry = "cleanRavensData_main"
    /\ pc = "loop"
    /\ idx <= Len(target_years)
    /\ LET target_file == FileName("pbpRavens", target_years[idx])
           alt_file == FileName("play_by_play_", target_years[idx])
           renamed == RenameAlt(fs.disk, alt_file, target_file)
           r == clean_ravens_games(renamed, target_file)
       IN  IF renamed[target_file] = Absent
           THEN /\ fs' = [fs EXCEPT !.disk = renamed]
                /\ log' = Append(log, [file |-> target_file, event |-> "skipped"])
                /\ UNCHANGED <<pc, result, results>>
           ELSE IF r = KeyError
           THEN /\ fs' = [fs EXCEPT !.disk = renamed]
                /\ log' = Append(log, [file |-> target_file, event |-> "error"])
                /\ result' = r
                /\ pc' = "uncaught"
                /\ UNCHANGED results
           ELSE /\ fs' = [fs EXCEPT !.disk = r.disk]
                /\ log' = Append(log, [file |-> target_file, event |-> "cleaned"])
                /\ result' = r
                /\ results' = Append(results, r.stats)
                /\ UNCHANGED pc
    /\ idx' = idx + 1
    /\ UNCHANGED <<entry, csv, era_result, totals, loaded, rank_args, sorted_df, arg_df>>

\* The loop is over: main prints its summary and returns.
CleanRavensSummary ==
    /\ entry = "cleanRavensData_main"
    /\ pc = "loop"
    /\ idx > Len(target_years)
    /\ pc' = "done"
    /\ UNCHANGED <<entry, idx, csv, result, results, era_result, totals, loaded, log,
                   rank_args, sorted_df, arg_df, fs>>

\* clean_ravens_games(input_file) called on a file, and called once more
\* on the file it has left; csv is the file the call read.
CleanRavensCall ==
    /\ entry = "clean_ravens_games"
    /\ pc \in {"loop", "once"}
    /\ LET r == clean_ravens_games(fs.disk, first_target_file)
       IN  /\ csv' = fs.disk[first_target_file]
           /\ result' = r
           /\ IF r \in {FileNotFound, KeyError}
              THEN /\ pc' = "uncaught"
                   /\ UNCHANGED <<fs, results>>
              ELSE /\ fs' = [fs EXCEPT !.disk = r.disk]
                   /\ results' = Append(results, r.stats)
                   /\ pc' = IF pc = "loop" THEN "once" ELSE "twice"
    /\ UNCHANGED <<entry, idx, era_result, totals, loaded, log, rank_args,
                   sorted_df, arg_df>>

NextCleanRavens == CleanRavensStep \/ CleanRavensSummary \/ CleanRavensCall

SpecCleanRavens == InitCleanRavens /\ [][NextCleanRavens]_vars

\* C16 as stated: input play-by-play files are never modified on disk:
\* after cleanRavensData.main finishes, every input csv that existed before
\* the run still exists under the same name with the same rows.
C16_InputsNeverModified ==
    (entry = "cleanRavensData_main" /\ pc = "done") =>
        \A n \in RavensNames : fs.found[n] # Absent => fs.disk[n] = fs.found[n]

\* The rows main leaves under pbpRavens{year}.csv: the Ravens-game rows of
\* play_by_play_{year}.csv when that was there, else of pbpRavens{year}.csv.
RowsKept(year) ==
    LET alt == fs.found[FileName("play_by_play_", year)]
        old == fs.found[FileName("pbpRavens", year)]
    IN  { k \in DOMAIN (IF alt # Absent THEN alt ELSE old).rows :
            LET r == (IF alt # Absent THEN alt ELSE old).rows[k]
            IN  r.home_team = "BAL" \/ r.away_team = "BAL" }

\* C16, amended: cleanRavensData.main modifies its input files on disk.
\* After it finishes, no input named play_by_play_{year}.csv is left under
\* that name, every file named pbpRavens{year}.csv holds rows of Ravens
\* games only, and an input still exists under the same name with the same
\* rows only if it is a pbpRavens{year}.csv whose rows are exactly the
\* Ravens-game rows of the file main cleaned for that year.
C16_InputsCleanedInPlace ==
    (entry = "cleanRavensData_main" /\ pc = "done") =>
        \A i \in DOMAIN target_years :
            LET alt_name == FileName("play_by_play_", target_years[i])
                name == FileName("pbpRavens", target_years[i])
                src == IF fs.found[alt_name] # Absent
                       THEN fs.found[alt_name] ELSE fs.found[name]
            IN  /\ fs.disk[alt_name] = Absent
                /\ fs.disk[name] # Absent =>
                       \A k \in DOMAIN fs.disk[name].rows :
                           \/ fs.disk[name].rows[k].home_team = "BAL"
                           \/ fs.disk[name].rows[k].away_team = "BAL"
                /\ (fs.found[name] # Absent /\ fs.disk[name] = fs.found[name]) =>
                       /\ Len(fs.found[name].rows) = Cardinality(RowsKept(target_years[i]))
                       /\ Len(src.rows) >= Len(fs.found[name].rows)
                /\ (fs.found[name] # Absent /\ fs.found[alt_name] = Absent
                        /\ Cardinality(RowsKept(target_years[i])) < Len(fs.found[name].rows)) =>
                       /\ fs.disk[name] # fs.found[name]
                       /\ Len(fs.disk[name].rows) = Cardinality(RowsKept(target_years[i]))

\* play_by_play_2021.csv with a Ravens play and another game's play is
\* renamed and cut to the Ravens play.
C16_Witness ==
    /\ entry = "cleanRavensData_main"
    /\ pc = "done"
    /\ fs.found[FileName("play_by_play_", 2021)] # Absent
    /\ Len(fs.found[FileName("play_by_play_", 2021)].rows) = 2
    /\ fs.disk[FileName("play_by_play_", 2021)] = Absent
    /\ fs.disk[FileName("pbpRavens", 2021)] # Absent
    /\ Len(fs.disk[FileName("pbpRavens", 2021)].rows) = 1
    /\ results[1].rows_removed = 1

\* The row is a play of a Ravens game.
IsRavensGame(r) == r.home_team = "BAL" \/ r.away_team = "BAL"

\* C23: after cleanRavensData.main completes, for every target year no
\* file play_by_play_{year}.csv remains; pbpRavens{year}.csv exists if and
\* only if one of the two files existed before the run; and when it exists
\* it holds exactly the Ravens-game rows of play_by_play_{year}.csv if that
\* existed (whatever pbpRavens{year}.csv held before) and otherwise of the
\* earlier pbpRavens{year}.csv.
C23_MainLeavesRavensFiles ==
    (entry = "cleanRavensData_main" /\ pc = "done") =>
        \A i \in DOMAIN target_years :
            LET alt_name == FileName("play_by_play_", target_years[i])
                name == FileName("pbpRavens", target_years[i])
                src == IF fs.found[alt_name] # Absent
                       THEN fs.found[alt_name] ELSE fs.found[name]
            IN  /\ fs.disk[alt_name] = Absent
                /\ fs.disk[name] # Absent <=>
                       (fs.found[alt_name] # Absent \/ fs.found[name] # Absent)
                /\ fs.disk[name] # Absent =>
                       /\ fs.disk[name].columns = src.columns
                       /\ ValuesOf(fs.disk[name]) = SelectSeq(ValuesOf(src), IsRavensGame)

\* Both files of 2021 were there, with different rows: the rows of
\* play_by_play_2021.csv, cut to the Ravens game, are what is left.
C23_Witness ==
    /\ entry = "cleanRavensData_main"
    /\ pc = "done"
    /\ fs.found[FileName("play_by_play_", 2021)] =
           CsvFile(RavensColumns, <<RavensRowList[1], RavensRowList[3]>>)
    /\ fs.found[FileName("pbpRavens", 2021)] =
           CsvFile(RavensColumns, <<RavensRowList[2]>>)
    /\ fs.disk[FileName("play_by_play_", 2021)] = Absent
    /\ fs.disk[FileName("pbpRavens", 2021)] # Absent
    /\ ValuesOf(fs.disk[FileName("pbpRavens", 2021)]) =
           ValuesOf(CsvFile(RavensColumns, <<RavensRowList[1]>>))

\* C24: on every run of clean_ravens_games original_rows = filtered_rows +
\* rows_removed and every row it keeps has home_team or away_team BAL; a
\* second run, on the file the first run left, leaves the file as it is and
\* reports rows_removed = 0.
C24_CleanIsIdempotent ==
    entry = "clean_ravens_games" =>
        /\ \A i \in DOMAIN results :
               results[i].original_rows =
                   results[i].filtered_rows + results[i].rows_removed
        /\ pc \in {"once", "twice"} =>
               /\ results[Len(results)].original_rows = Len(csv.rows)
               /\ results[Len(results)].filtered_rows = Len(fs.disk[first_target_file].rows)
               /\ \A k \in DOMAIN result.ravens_df : IsRavensGame(result.ravens_df[k])
               /\ \A k \in DOMAIN fs.disk[first_target_file].rows :
                      IsRavensGame(fs.disk[first_target_file].rows[k])
               /\ ValuesOf(fs.disk[first_target_file]) =
                      SelectSeq(ValuesOf(csv), IsRavensGame)
        /\ pc = "twice" =>
               /\ fs.disk[first_target_file] = csv
               /\ results[2].rows_removed = 0
               /\ results[2].filtered_rows = results[1].filtered_rows

\* A file of a Ravens play and another game's play, cleaned twice: the
\* first run removes a row, the second none.
C24_Witness ==
    /\ entry = "clean_ravens_games"
    /\ pc = "twice"
    /\ fs.found[first_target_file] =
           CsvFile(RavensColumns, <<RavensRowList[1], RavensRowList[3]>>)
    /\ results[1].rows_removed = 1
    /\ results[2].rows_removed = 0
    /\ Len(fs.disk[first_target_file].rows) = 1

----------------------------------------------------------------------------
(* fieldZoneHeatmap.py: main, create_heatmap, export_zone_data_csv.        *)

\* The default output_path of create_heatmap and of export_zone_data_csv.
heatmap_png == "../output/visualizations/field_zone_heatmap.png"
zone_data_csv == "../output/field_zone_completion_data_2024.csv"

\* output_path.replace('.png', '.svg')
svg_path(output_path) ==
    CASE output_path = heatmap_png -> "../output/visualizations/field_zone_heatmap.svg"

\* The directory a path lies in.
dirname(path) ==
    CASE path = heatmap_png -> "../output/visualizations"
      [] path = svg_path(heatmap_png) -> "../output/visualizations"
      [] path = zone_data_csv -> "../output"
      [] path = "../output/visualizations" -> "../output"
      [] path = "../output" -> ".."

\* A directory tree: the directories and the files that exist.
Tree(dirs, files) == [dirs |-> dirs, files |-> files]

\* The trees a script is started in: the output directories may be missing,
\* and an image of an earlier run may be there.
HeatmapTrees ==
    { Tree({".."} \cup dirs, files) :
          dirs \in { {}, {"../output"}, {"../output", "../output/visualizations"} },
          files \in { {}, {heatmap_png} } }
        \ { Tree({".."} \cup dirs, {heatmap_png}) : dirs \in { {}, {"../output"} } }

\* plt.savefig(path) and df.to_csv(path): the file is written when its
\* directory exists; otherwise open() fails and the call raises.
SaveFile(tree, path) ==
    IF dirname(path) \in tree.dirs
    THEN Tree(tree.dirs, tree.files \cup {path})
    ELSE FileNotFound

\* The end of create_heatmap(zone_stats, ..., output_path): the figure is
\* saved as PNG, then as SVG.  No statement of the function makes the
\* directory of output_path.
create_heatmap(tree, output_path) ==
    LET png == SaveFile(tree, output_path)
    IN  IF png = FileNotFound THEN FileNotFound
        ELSE SaveFile(png, svg_path(output_path))

InitHeatmap ==
    /\ entry = "fieldZoneHeatmap_main"
    /\ pc = "start"
    /\ idx = 1
    /\ csv = None
    /\ result = None
    /\ results = <<>>
    /\ era_result = None
    /\ totals = None
    /\ loaded = EmptyBag
    /\ log = <<>>
    /\ rank_args = None
    /\ sorted_df = <<>>
    /\ arg_df \in ZoneTables
    /\ \E t \in HeatmapTrees : fs = [found |-> t, disk |-> t]

\* main of fieldZoneHeatmap, the season loaded:
\*     zone_stats = calculate_zone_stats(df_2024, qb_name='C.Williams')
\* and the zone breakdown is printed.
HeatmapMainStats ==
    /\ entry = "fieldZoneHeatmap_main"
    /\ pc = "start"
    /\ result' = calculate_zone_stats(arg_df, "C.Williams")
    /\ pc' = "stats"
    /\ UNCHANGED <<entry, idx, csv, results, era_result, totals, loaded, log,
                   rank_args, sorted_df, arg_df, fs>>

\* create_heatmap(zone_stats, qb_name='Caleb Williams', season=2024); an
\* exception of savefig ends main.
HeatmapMainCreate ==
    /\ entry = "fieldZoneHeatmap_main"
    /\ pc = "stats"
    /\ LET t == create_heatmap(fs.disk, heatmap_png)
       IN  IF t = FileNotFound
           THEN /\ pc' = "uncaught"
                /\ log' = Append(log, [call |-> "create_heatmap", raised |-> TRUE])
                /\ UNCHANGED fs
           ELSE /\ pc' = "heatmap"
                /\ log' = Append(log, [call |-> "create_heatmap", raised |-> FALSE])
                /\ fs' = [fs EXCEPT !.disk = t]
    /\ UNCHANGED <<entry, idx, csv, result, results, era_result, totals, loaded,
                   rank_args, sorted_df, arg_df>>

\* export_zone_data_csv(zone_stats), then main's closing banner.
HeatmapMainExport ==
    /\ entry = "fieldZoneHeatmap_main"
    /\ pc = "heatmap"
    /\ LET t == SaveFile(fs.disk, zone_data_csv)
       IN  IF t = FileNotFound
           THEN /\ pc' = "uncaught"
                /\ log' = Append(log, [call |-> "export_zone_data_csv", raised |-> TRUE])
                /\ UNCHANGED fs
           ELSE /\ pc' = "done"
                /\ log' = Append(log, [call |-> "export_zone_data_csv", raised |-> FALSE])
                /\ fs' = [fs EXCEPT !.disk = t]
    /\ UNCHANGED <<entry, idx, csv, result, results, era_result, totals, loaded,
                   rank_args, sorted_df, arg_df>>

NextHeatmap == HeatmapMainStats \/ HeatmapMainCreate \/ HeatmapMainExport

SpecHeatmap == InitHeatmap /\ [][NextHeatmap]_vars

\* C17: in fieldZoneHeatmap.create_heatmap the directory of output_path is
\* created if it is missing before the PNG and SVG files are saved, so the
\* save succeeds from a file system in which that directory does not exist:
\* once create_heatmap has been called the directory and both images exist.
C17_HeatmapDirectoryCreated ==
    (entry = "fieldZoneHeatmap_main" /\ log # <<>>) =>
        /\ ~log[1].raised
        /\ dirname(heatmap_png) \in fs.disk.dirs
        /\ {heatmap_png, svg_path(heatmap_png)} \subseteq fs.disk.files

----------------------------------------------------------------------------
(* twoMinuteDrillAnalysis.py: get_two_minute_drill_stats.                  *)

\* A play as get_two_minute_drill_stats reads it (epa left out: only avg_epa
\* reads it).  A player column holds "" where the feed has no name.
DrillPlay(game_id, drive, half_seconds_remaining, posteam, passer_player_name, rusher_player_name, posteam_score, posteam_score_post, flags) ==
    [game_id |-> game_id, drive |-> drive,
     half_seconds_remaining |-> half_seconds_remaining, posteam |-> posteam,
     passer_player_name |-> passer_player_name,
     rusher_player_name |-> rusher_player_name,
     posteam_score |-> posteam_score, posteam_score_post |-> posteam_score_post,
     success |-> flags[1], pass_attempt |-> flags[2], complete_pass |-> flags[3],
     touchdown |-> flags[4], interception |-> flags[5]]

\* The plays a table is made of: in game 1 a drive 5 of two plays that ends
\* in a touchdown; in game 2 a drive 5 too, with no points, and a drive 7
\* that ends in a field goal after a scramble of the quarterback; a play
\* outside the last two minutes; a play of another quarterback; a play at
\* the end of the half (0 seconds left).
DrillPlayList ==
    << DrillPlay("g1", 5, 100, "CHI", "C.Williams", "", 0, 0, <<1, 1, 1, 0, 0>>),
       DrillPlay("g1", 5, 60, "CHI", "C.Williams", "", 0, 7, <<1, 1, 1, 1, 0>>),
       DrillPlay("g2", 5, 90, "CHI", "C.Williams", "", 10, 10, <<0, 1, 0, 0, 0>>),
       DrillPlay("g2", 7, 120, "CHI", "", "C.Williams", 10, 13, <<1, 0, 0, 0, 0>>),
       DrillPlay("g1", 3, 300, "CHI", "C.Williams", "", 0, 3, <<1, 1, 1, 0, 0>>),
       DrillPlay("g1", 4, 50, "GB", "J.Love", "", 0, 7, <<1, 1, 1, 1, 0>>),
       DrillPlay("g2", 7, 0, "CHI", "C.Williams", "", 13, 13, <<0, 1, 0, 0, 1>>) >>

\* The tables get_two_minute_drill_stats is called on.
DrillTables ==
    UNION { [1..n -> { DrillPlayList[i] : i \in DOMAIN DrillPlayList }] : n \in 0..MaxRows }

\* two_min_plays: the plays of the quarterback for the team in the last two
\* minutes of a half.
TwoMinPlays(t, qb_name, team) ==
    SelectSeq(t, LAMBDA r : /\ r.half_seconds_remaining <= 120
                            /\ r.half_seconds_remaining > 0
                            /\ r.posteam = team
                            /\ (r.passer_player_name = qb_name
                                    \/ r.rusher_player_name = qb_name))

\* two_min_plays.groupby('drive'): the keys of the groups.
DriveKeys(plays) == { plays[i].drive : i \in DOMAIN plays }

\* The plays of one group, in the order of the table.
DrivePlays(plays, drive_id) == SelectSeq(plays, LAMBDA r : r.drive = drive_id)

\* drive_plays['posteam_score_post'].iloc[-1] - drive_plays['posteam_score'].iloc[0]
DriveScore(drive_plays) ==
    drive_plays[Len(drive_plays)].posteam_score_post - drive_plays[1].posteam_score

\* total_points over the groups: the scores above 0 added up.
RECURSIVE DrivePoints(_, _)
DrivePoints(plays, keys) ==
    IF keys = {} THEN 0
    ELSE LET k == CHOOSE x \in keys : TRUE
             drive_score == DriveScore(DrivePlays(plays, k))
         IN  (IF drive_score > 0 THEN drive_score ELSE 0)
                 + DrivePoints(plays, keys \ {k})

\* get_two_minute_drill_stats(df, qb_name, team).
get_two_minute_drill_stats(t, qb_name, team) ==
    LET two_min_plays == TwoMinPlays(t, qb_name, team)
        drives == DriveKeys(two_min_plays)
        total_drives == Cardinality(drives)
        drives_with_points ==
            Cardinality({ k \in drives : DriveScore(DrivePlays(two_min_plays, k)) > 0 })
        total_points == DrivePoints(two_min_plays, drives)
        games == Cardinality({ two_min_plays[i].game_id : i \in DOMAIN two_min_plays })
        successful_plays == Len(SelectSeq(two_min_plays, LAMBDA r : r.success = 1))
        total_plays == Len(two_min_plays)
        pass_attempts == Len(SelectSeq(two_min_plays, LAMBDA r : r.pass_attempt = 1))
        completions == Sum(two_min_plays, "complete_pass")
    IN  IF Len(two_min_plays) = 0 THEN None
        ELSE [kind |-> "record",
              qb_name |-> qb_name,
              team |-> team,
              total_drives |-> total_drives,
              drives_with_points |-> drives_with_points,
              drives_ending_in_points_pct |-> Rate(drives_with_points, total_drives),
              total_points |-> total_points,
              games |-> games,
              points_per_game |->
                  IF games > 0 THEN Float(total_points, games) ELSE Float(0, 1),
              total_plays |-> total_plays,
              success_rate |-> Rate(successful_plays, total_plays),
              pass_attempts |-> pass_attempts,
              completions |-> completions,
              completion_rate |-> Rate(completions, pass_attempts),
              touchdowns |-> Sum(two_min_plays, "touchdown"),
              interceptions |-> Sum(two_min_plays, "interception")]

\* The analysis functions of the scheme-evolution article, each called on
\* a play-by-play table of its own columns.
InitQbAnalysis ==
    /\ entry \in {"analyze_offensive_line", "get_pressure_stats",
                  "get_two_minute_drill_stats"}
    /\ pc = "call"
    /\ idx = 1
    /\ csv = None
    /\ result = None
    /\ results = <<>>
    /\ era_result = None
    /\ totals = None
    /\ loaded = EmptyBag
    /\ log = <<>>
    /\ rank_args = None
    /\ sorted_df = <<>>
    /\ arg_df \in CASE entry = "analyze_offensive_line" -> LineTables
                    [] entry = "get_pressure_stats" -> PressureTables
                    [] entry = "get_two_minute_drill_stats" -> DrillTables
    /\ fs = None

\* ol = analyze_offensive_line(df, team), with team 'CHI'.
OffensiveLineCall ==
    /\ entry = "analyze_offensive_line"
    /\ pc = "call"
    /\ result' = analyze_offensive_line(arg_df, "CHI")
    /\ pc' = "done"
    /\ UNCHANGED <<entry, idx, csv, results, era_result, totals, loaded, log,
                   rank_args, sorted_df, arg_df, fs>>

\* caleb_stats = get_pressure_stats(df, qb_name), with qb_name 'C.Williams'.
PressureCall ==
    /\ entry = "get_pressure_stats"
    /\ pc = "call"
    /\ result' = get_pressure_stats(arg_df, "C.Williams")
    /\ pc' = "done"
    /\ UNCHANGED <<entry, idx, csv, results, era_result, totals, loaded, log,
                   rank_args, sorted_df, arg_df, fs>>

\* caleb_stats = get_two_minute_drill_stats(df, qb_name, team), with
\* 'C.Williams' and 'CHI'.
TwoMinuteCall ==
    /\ entry = "get_two_minute_drill_stats"
    /\ pc = "call"
    /\ result' = get_two_minute_drill_stats(arg_df, "C.Williams", "CHI")
    /\ pc' = "done"
    /\ UNCHANGED <<entry, idx, csv, results, era_result, totals, loaded, log,
                   rank_args, sorted_df, arg_df, fs>>

NextQbAnalysis == OffensiveLineCall \/ PressureCall \/ TwoMinuteCall

SpecQbAnalysis == InitQbAnalysis /\ [][NextQbAnalysis]_vars

\* The tables that hold the rows of t in another order.
PermutationsOf(t) ==
    { [i \in DOMAIN t |-> t[p[i]]] :
          p \in { q \in [DOMAIN t -> DOMAIN t] : \A i, j \in DOMAIN t : q[i] = q[j] => i = j } }

\* C18: the record returned by get_two_minute_drill_stats (total_drives,
\* drives_with_points, total_points, points_per_game and the rates) is the
\* same for every permutation of the rows of the input table.
C18_RowOrderIrrelevant ==
    (entry = "get_two_minute_drill_stats" /\ pc = "done") =>
        \A t \in PermutationsOf(arg_df) :
            get_two_minute_drill_stats(t, "C.Williams", "CHI") = result

\* The selected two-minute plays of the table.
SelectedDrillPlays ==
    { i \in DOMAIN arg_df :
          /\ arg_df[i].half_seconds_remaining <= 120
          /\ arg_df[i].half_seconds_remaining > 0
          /\ arg_df[i].posteam = "CHI"
          /\ "C.Williams" \in {arg_df[i].passer_player_name, arg_df[i].rusher_player_name} }

\* C19: get_two_minute_drill_stats counts drives per real drive: total_drives
\* is the number of distinct (game_id, drive) pairs among the selected
\* two-minute plays, so two drives of different games with the same drive
\* number are counted as two drives.
C19_DrivesCountedPerGame ==
    (entry = "get_two_minute_drill_stats" /\ pc = "done" /\ result # None) =>
        result.total_drives =
            Cardinality({ <<arg_df[i].game_id, arg_df[i].drive>> : i \in SelectedDrillPlays })

----------------------------------------------------------------------------
(* passingStatsAnalysis.py: calculate_basic_passing_stats;                 *)
(* dart_rookie_season.py: the passer rating of the script.                 *)

\* Float arithmetic, on exact fractions with a positive denominator, kept in
\* lowest terms.
RECURSIVE Gcd(_, _)
Gcd(m, n) == IF n = 0 THEN m ELSE Gcd(n, m % n)

Lowest(num, den) ==
    LET g == Gcd(IF num < 0 THEN -num ELSE num, den)
    IN  Float(num \div g, den \div g)

FAdd(x, y) == Lowest(x.num * y.den + y.num * x.den, x.den * y.den)
FSub(x, y) == Lowest(x.num * y.den - y.num * x.den, x.den * y.den)
FMul(x, y) == Lowest(x.num * y.num, x.den * y.den)
\* x / y for y > 0.
FDiv(x, y) == Lowest(x.num * y.den, x.den * y.num)
FLess(x, y) == x.num * y.den < y.num * x.den

\* Python's min(x, y) and max(x, y) of two numbers: the first argument
\* unless the second is smaller (larger).
min(x, y) == IF FLess(y, x) THEN y ELSE x
max(x, y) == IF FLess(x, y) THEN y ELSE x

\* A play as the two passing scripts read it.  passing_yards is 0 where the
\* feed has none (sum() skips NaN).
PassPlay(passer_player_name, passer_player_id, posteam, pass_attempt, qb_spike, complete_pass, incomplete_pass, passing_yards, pass_touchdown, interception, sack) ==
    [passer_player_name |-> passer_player_name, passer_player_id |-> passer_player_id,
     posteam |-> posteam, pass_attempt |-> pass_attempt, qb_spike |-> qb_spike,
     complete_pass |-> complete_pass, incomplete_pass |-> incomplete_pass,
     passing_yards |-> passing_yards, pass_touchdown |-> pass_touchdown,
     interception |-> interception, sack |-> sack]

DART_ID == "00-0040691"

\* The plays a table is made of, all but the last by J.Dart for the Giants:
\* a 40-yard touchdown pass, an interception, a completion for a loss of 5,
\* a completion for 8, a spike, a sack, and a completion of another passer.
PassPlayList ==
    << PassPlay("J.Dart", DART_ID, "NYG", 1, 0, 1, 0, 40, 1, 0, 0),
       PassPlay("J.Dart", DART_ID, "NYG", 1, 0, 0, 1, 0, 0, 1, 0),
       PassPlay("J.Dart", DART_ID, "NYG", 1, 0, 1, 0, -5, 0, 0, 0),
       PassPlay("J.Dart", DART_ID, "NYG", 1, 0, 1, 0, 8, 0, 0, 0),
       PassPlay("J.Dart", DART_ID, "NYG", 1, 1, 0, 1, 0, 0, 0, 0),
       PassPlay("J.Dart", DART_ID, "NYG", 0, 0, 0, 0, 0, 0, 0, 1),
       PassPlay("D.Prescott", "00-0033077", "DAL", 1, 0, 1, 0, 15, 0, 0, 0) >>

\* The tables the passing scripts read.
PassTables ==
    UNION { [1..n -> { PassPlayList[i] : i \in DOMAIN PassPlayList }] : n \in 0..MaxRows }

Clamp_no_floor(x) == min(x, Float(19, 8))

\* max(0, min(x, 2.375))
Clamp(x) == max(Float(0, 1), min(x, Float(19, 8)))

\* The passer rating of calculate_basic_passing_stats (lines 59-73).
PasserRating(completions, total_attempts, passing_yards, pass_tds, interceptions) ==
    LET n == Float(total_attempts, 1)
        a == FMul(FSub(FDiv(Float(completions, 1), n), Float(3, 10)), Float(5, 1))
        b == FMul(FSub(FDiv(Float(passing_yards, 1), n), Float(3, 1)), Float(1, 4))
        c == FMul(FDiv(Float(pass_tds, 1), n), Float(20, 1))
        d == FSub(Float(19, 8), FMul(FDiv(Float(interceptions, 1), n), Float(25, 1)))
    IN  IF total_attempts > 0
        THEN FMul(FDiv(FAdd(FAdd(FAdd(Clamp(a), Clamp(b)), Clamp(c)), Clamp(d)),
                       Float(6, 1)),
                  Float(100, 1))
        ELSE Float(0, 1)

\* calculate_basic_passing_stats(df, qb_name).
calculate_basic_passing_stats(t, qb_name) ==
    LET qb_passes == SelectSeq(t, LAMBDA r : r.passer_player_name = qb_name)
        qb_passes_no_spike == SelectSeq(qb_passes, LAMBDA r : r.qb_spike # 1)
        completions == Sum(qb_passes_no_spike, "complete_pass")
        incompletions == Len(SelectSeq(qb_passes_no_spike, LAMBDA r : r.incomplete_pass = 1))
        total_attempts == completions + incompletions
        passing_yards == Sum(qb_passes_no_spike, "passing_yards")
        pass_tds == Sum(qb_passes_no_spike, "pass_touchdown")
        interceptions == Sum(qb_passes_no_spike, "interception")
    IN  IF Len(qb_passes) = 0 THEN None
        ELSE [kind |-> "record",
              qb_name |-> qb_name,
              attempts |-> total_attempts,
              completions |-> completions,
              completion_pct |-> Rate(completions, total_attempts),
              passing_yards |-> passing_yards,
              yards_per_attempt |->
                  IF total_attempts > 0 THEN Float(passing_yards, total_attempts)
                  ELSE Float(0, 1),
              pass_tds |-> pass_tds,
              interceptions |-> interceptions,
              sacks |-> Sum(qb_passes, "sack"),
              passer_rating |-> PasserRating(completions, total_attempts, passing_yards,
                                             pass_tds, interceptions)]

\* The passing part of dart_rookie_season.py (lines 17-55), on the table
\* read from play_by_play_2025.csv.
dart_rookie_season(t) ==
    LET dart_passes == SelectSeq(t, LAMBDA r : /\ r.passer_player_id = DART_ID
                                                /\ r.pass_attempt = 1
                                                /\ r.posteam = "NYG")
        pass_attempts == Len(dart_passes)
        completions == Sum(dart_passes, "complete_pass")
        pass_yards == Sum(dart_passes, "passing_yards")
        pass_tds == Sum(dart_passes, "pass_touchdown")
        interceptions == Sum(dart_passes, "interception")
        n == Float(pass_attempts, 1)
        comp_pct == Rate(completions, pass_attempts)
        ypa == FDiv(Float(pass_yards, 1), n)
        td_pct == FDiv(Float(pass_tds, 1), n)
        int_pct == FDiv(Float(interceptions, 1), n)
        comp_component ==
            max(Float(0, 1), min(Float(19, 8),
                FDiv(FSub(FDiv(comp_pct, Float(100, 1)), Float(3, 10)), Float(1, 5))))
        ypa_component ==
            max(Float(0, 1), min(Float(19, 8),
                FDiv(FSub(ypa, Float(3, 1)), Float(4, 1))))
        td_component ==
            max(Float(0, 1), min(Float(19, 8), FMul(td_pct, Float(20, 1))))
        int_component ==
            max(Float(0, 1), min(Float(19, 8),
                FSub(Float(19, 8), FMul(int_pct, Float(25, 1)))))
    IN  [kind |-> "record",
         pass_attempts |-> pass_attempts,
         completions |-> completions,
         pass_yards |-> pass_yards,
         pass_tds |-> pass_tds,
         interceptions |-> interceptions,
         comp_pct |-> comp_pct,
         passer_rating |->
             IF pass_attempts > 0
             THEN FMul(FDiv(FAdd(FAdd(FAdd(comp_component, ypa_component), td_component),
                                 int_component),
                            Float(6, 1)),
                       Float(100, 1))
             ELSE Float(0, 1)]

PassingEntries == {"calculate_basic_passing_stats", "dart_rookie_season"}

InitPassing ==
    /\ entry \in PassingEntries
    /\ pc = "call"
    /\ idx = 1
    /\ csv = None
    /\ result = None
    /\ results = <<>>
    /\ era_result = None
    /\ totals = None
    /\ loaded = EmptyBag
    /\ log = <<>>
    /\ rank_args = None
    /\ sorted_df = <<>>
    /\ arg_df \in PassTables
    /\ fs = None

\* The call calculate_basic_passing_stats(df, 'J.Dart').
BasicPassingCall ==
    /\ entry = "calculate_basic_passing_stats"
    /\ pc = "call"
    /\ result' = calculate_basic_passing_stats(arg_df, "J.Dart")
    /\ pc' = "done"
    /\ UNCHANGED <<entry, idx, csv, results, era_result, totals, loaded, log,
                   rank_args, sorted_df, arg_df, fs>>

\* A run of dart_rookie_season.py up to its passer rating.
DartSeasonRun ==
    /\ entry = "dart_rookie_season"
    /\ pc = "call"
    /\ result' = dart_rookie_season(arg_df)
    /\ pc' = "done"
    /\ UNCHANGED <<entry, idx, csv, results, era_result, totals, loaded, log,
                   rank_args, sorted_df, arg_df, fs>>

NextPassing == BasicPassingCall \/ DartSeasonRun

SpecPassing == InitPassing /\ [][NextPassing]_vars

\* The rows of the table that the passer rating of the entry counts.
RatedPlays ==
    IF entry = "calculate_basic_passing_stats"
    THEN SelectSeq(arg_df, LAMBDA r : r.passer_player_name = "J.Dart" /\ r.qb_spike # 1)
    ELSE SelectSeq(arg_df, LAMBDA r : r.passer_player_id = DART_ID /\ r.pass_attempt = 1
                                      /\ r.posteam = "NYG")

\* The attempts of the rating: completions plus incompletions in
\* calculate_basic_passing_stats, the pass attempts in dart_rookie_season.
RatedAttempts ==
    IF entry = "calculate_basic_passing_stats"
    THEN Sum(RatedPlays, "complete_pass")
             + Len(SelectSeq(RatedPlays, LAMBDA r : r.incomplete_pass = 1))
    ELSE Len(RatedPlays)

\* A component of the rating in units of 1 / (40 * attempts), clamped to
\* [0, 2.375].
Clamped(x, attempts) ==
    IF x < 0 THEN 0 ELSE IF x > 95 * attempts THEN 95 * attempts ELSE x

\* The four clamped components added up, in units of 1 / (40 * attempts):
\* a = (completions / attempts - 0.3) * 5, b = (yards / attempts - 3) / 4,
\* c = touchdowns / attempts * 20, d = 2.375 - interceptions / attempts * 25.
RatingComponents ==
    LET n == RatedAttempts
    IN  Clamped(200 * Sum(RatedPlays, "complete_pass") - 60 * n, n)
            + Clamped(10 * Sum(RatedPlays, "passing_yards") - 30 * n, n)
            + Clamped(800 * Sum(RatedPlays, "pass_touchdown"), n)
            + Clamped(95 * n - 1000 * Sum(RatedPlays, "interception"), n)

\* C20: the passer rating computed by calculate_basic_passing_stats and by
\* dart_rookie_season is 0 when attempts are 0 and otherwise equals
\* 100 * (a + b + c + d) / 6 with each of the four components clamped to
\* [0, 2.375], so it lies between 0 and 950/6 (158.33) inclusive, negative
\* yards included.
C20_PasserRatingClamped ==
    (entry \in PassingEntries /\ pc = "done" /\ result # None) =>
        LET r == result.passer_rating
        IN  /\ r.kind = "float"
            /\ r.den > 0
            /\ RatedAttempts = 0 => r.num = 0
            /\ RatedAttempts > 0 =>
                   r.num * 240 * RatedAttempts = 100 * RatingComponents * r.den
            /\ 0 <= r.num
            /\ 6 * r.num <= 950 * r.den

\* A completion for a loss of 5 and an interception: a = 1, b, c and d are
\* clamped to 0 (b and d from below 0), the rating is 100 / 6.
C20_Witness ==
    /\ entry = "calculate_basic_passing_stats"
    /\ pc = "done"
    /\ arg_df = <<PassPlayList[3], PassPlayList[2]>>
    /\ result.attempts = 2
    /\ result.passing_yards = -5
    /\ 6 * result.passer_rating.num = 100 * result.passer_rating.den

----------------------------------------------------------------------------
(* one_score_game_record.py                                                *)

\* Largest number of rows of the combined play-by-play table.
MaxPlays == 3

\* A play as the script reads it: its game, the two teams, the score of
\* each after the play, the season.
ScorePlay(game_id, home_team, away_team, total_home_score, total_away_score, season) ==
    [game_id |-> game_id, home_team |-> home_team, away_team |-> away_team,
     total_home_score |-> total_home_score, total_away_score |-> total_away_score,
     season |-> season]

\* The plays of the combined table: two plays of a home game the Giants win
\* by four, a tie of the Giants away, a Giants loss by 27, a league game won
\* by the away team, a league tie, a league game won by 37, a Giants win of
\* the 2015 season, a Giants away win by three.
ScorePlayList ==
    << ScorePlay(1, "NYG", "DAL",  7,  0, 2016),
       ScorePlay(1, "NYG", "DAL", 14, 10, 2016),
       ScorePlay(2, "PHI", "NYG", 20, 20, 2017),
       ScorePlay(3, "WAS", "NYG", 30,  3, 2020),
       ScorePlay(4, "DAL", "PHI", 10, 17, 2018),
       ScorePlay(5, "KC",  "BUF", 24, 24, 2019),
       ScorePlay(6, "KC",  "DAL", 40,  3, 2021),
       ScorePlay(7, "NYG", "PHI", 21, 20, 2015),
       ScorePlay(8, "DAL", "NYG", 10, 13, 2022) >>

\* df.groupby('game_id').agg({... 'first', 'max' ...}).reset_index(), with
\* the column score_diff: one row per game id of ids, in the order of the
\* ids.
RECURSIVE Games(_, _)
Games(df, ids) ==
    IF ids = {} THEN <<>>
    ELSE LET g == CHOOSE x \in ids : \A y \in ids : x <= y
             plays == SelectSeq(df, LAMBDA r : r.game_id = g)
             home == CHOOSE m \in { plays[i].total_home_score : i \in DOMAIN plays } :
                         \A i \in DOMAIN plays : plays[i].total_home_score <= m
             away == CHOOSE m \in { plays[i].total_away_score : i \in DOMAIN plays } :
                         \A i \in DOMAIN plays : plays[i].total_away_score <= m
         IN  << [game_id |-> g,
                 home_team |-> plays[1].home_team,
                 away_team |-> plays[1].away_team,
                 total_home_score |-> home,
                 total_away_score |-> away,
                 season |-> plays[1].season,
                 score_diff |-> IF home >= away THEN home - away ELSE away - home] >>
             \o Games(df, ids \ {g})

\* A result that gives the Giants the tied games.
get_giants_result_ties_won(row) ==
    IF row.home_team = "NYG"
    THEN (IF row.total_home_score >= row.total_away_score THEN "W" ELSE "L")
    ELSE (IF row.total_away_score >= row.total_home_score THEN "W" ELSE "L")

\* get_giants_result(row)
get_giants_result(row) ==
    IF row.home_team = "NYG"
    THEN (IF row.total_home_score > row.total_away_score THEN "W" ELSE "L")
    ELSE (IF row.total_away_score > row.total_home_score THEN "W" ELSE "L")

\* A loop body that gives the win of a tied game to neither team.
CountGame_ties_unwon(d, game) ==
    LET home_team == game.home_team
        away_team == game.away_team
        seen == { t \in {home_team, away_team} : t \notin DOMAIN d.team_games }
        team_games == d.team_games @@ [t \in seen |-> 0]
        team_wins == d.team_wins @@ [t \in seen |-> 0]
    IN  [team_games |-> [t \in DOMAIN team_games |->
                             team_games[t] + (IF t = home_team THEN 1 ELSE 0)
                                           + (IF t = away_team THEN 1 ELSE 0)],
         team_wins |->
             IF game.total_home_score > game.total_away_score
             THEN [team_wins EXCEPT ![home_team] = @ + 1]
             ELSE IF game.total_away_score > game.total_home_score
             THEN [team_wins EXCEPT ![away_team] = @ + 1]
             ELSE team_wins]

\* The body of `for _, game in league_one_score.iterrows():` on the two
\* dicts d: both teams get their keys and a game each, and one of them the win.
CountGame(d, game) ==
    LET home_team == game.home_team
        away_team == game.away_team
        seen == { t \in {home_team, away_team} : t \notin DOMAIN d.team_games }
        team_games == d.team_games @@ [t \in seen |-> 0]
        team_wins == d.team_wins @@ [t \in seen |-> 0]
    IN  [team_games |-> [t \in DOMAIN team_games |->
                             team_games[t] + (IF t = home_team THEN 1 ELSE 0)
                                           + (IF t = away_team THEN 1 ELSE 0)],
         team_wins |->
             IF game.total_home_score > game.total_away_score
             THEN [team_wins EXCEPT ![home_team] = @ + 1]
             ELSE [team_wins EXCEPT ![away_team] = @ + 1]]

\* The two dicts after the loop over the games.
RECURSIVE CountGames(_, _)
CountGames(d, games) ==
    IF games = <<>> THEN d ELSE CountGames(CountGame(d, Head(games)), Tail(games))

\* sum(d.values())
RECURSIVE SumValues(_)
SumValues(d) ==
    IF DOMAIN d = {} THEN 0
    ELSE LET k == CHOOSE x \in DOMAIN d : TRUE
         IN  d[k] + SumValues([x \in DOMAIN d \ {k} |-> d[x]])

\* The script, run on the table all_data that pd.concat makes of the
\* season files it loads: the values it computes and prints.
one_score_game_record(all_data) ==
    LET df == SelectSeq(all_data, LAMBDA r : r.season \in 2016..2025)
        games == Games(df, { df[i].game_id : i \in DOMAIN df })
        one_score_games == SelectSeq(games, LAMBDA g : g.score_diff <= 8)
        IsGiants(g) == g.home_team = "NYG" \/ g.away_team = "NYG"
        giants_games == SelectSeq(one_score_games, IsGiants)
        result_column == [i \in DOMAIN giants_games |-> get_giants_result(giants_games[i])]
        giants_wins == Cardinality({ i \in DOMAIN result_column : result_column[i] = "W" })
        giants_losses == Cardinality({ i \in DOMAIN result_column : result_column[i] = "L" })
        giants_total == Len(giants_games)
        league_one_score == SelectSeq(one_score_games, LAMBDA g : ~IsGiants(g))
        d == CountGames([team_games |-> <<>>, team_wins |-> <<>>], league_one_score)
        total_win_rate ==
            IF SumValues(d.team_games) > 0
            THEN Lowest(SumValues(d.team_wins), SumValues(d.team_games))
            ELSE Float(1, 2)
        league_win_pct == FMul(total_win_rate, Float(100, 1))
        expected_win_pct == FDiv(league_win_pct, Float(100, 1))
        expected_wins == FMul(Float(giants_total, 1), expected_win_pct)
        giants_all_games == SelectSeq(games, IsGiants)
        giants_losses_recent ==
            SelectSeq(giants_all_games,
                      LAMBDA g : g.season \in 2020..2025 /\ get_giants_result(g) = "L")
    IN  [kind |-> "record",
         giants_games |-> giants_games,
         result_column |-> result_column,
         giants_wins |-> giants_wins,
         giants_losses |-> giants_losses,
         giants_total |-> giants_total,
         giants_win_pct |-> Rate(giants_wins, giants_total),
         team_wins |-> d.team_wins,
         team_games |-> d.team_games,
         league_win_pct |-> league_win_pct,
         expected_wins |-> expected_wins,
         wins_lost |-> FSub(expected_wins, Float(giants_wins, 1)),
         avg_point_diff_losses |->
             IF Len(giants_losses_recent) > 0
             THEN Lowest(Sum(giants_losses_recent, "score_diff"), Len(giants_losses_recent))
             ELSE Float(0, 1),
         one_score_pct |->
             Rate(Len(SelectSeq(giants_all_games, LAMBDA g : g.score_diff <= 8)),
                  Len(giants_all_games))]

\* The script starts with the season files on disk; arg_df is the table
\* they make when put one after the other.
InitOneScore ==
    /\ entry = "one_score_game_record"
    /\ pc = "start"
    /\ idx = 1
    /\ csv = None
    /\ result = None
    /\ results = <<>>
    /\ era_result = None
    /\ totals = None
    /\ loaded = EmptyBag
    /\ log = <<>>
    /\ rank_args = None
    /\ sorted_df = <<>>
    /\ arg_df \in UNION { [1..n -> { ScorePlayList[k] : k \in DOMAIN ScorePlayList }] :
                          n \in 0..MaxPlays }
    /\ fs = None

\* A run of the script.
OneScoreRun ==
    /\ entry = "one_score_game_record"
    /\ pc = "start"
    /\ result' = one_score_game_record(arg_df)
    /\ pc' = "done"
    /\ UNCHANGED <<entry, idx, csv, results, era_result, totals, loaded, log,
                   rank_args, sorted_df, arg_df, fs>>

NextOneScore == OneScoreRun

SpecOneScore == InitOneScore /\ [][NextOneScore]_vars

\* The plays of the table that the script counts: those of 2016-2025.
CountedScorePlays == { i \in DOMAIN arg_df : arg_df[i].season \in 2016..2025 }

\* The final score of the game g for the team: the highest score the team
\* has on a counted play of the game.
FinalScore(g, team) ==
    LET scores == { IF arg_df[i].home_team = team THEN arg_df[i].total_home_score
                    ELSE arg_df[i].total_away_score :
                        i \in { j \in CountedScorePlays : arg_df[j].game_id = g } }
    IN  CHOOSE m \in scores : \A s \in scores : s <= m

\* The two teams of the game g.
TeamsOf(g) ==
    UNION { {arg_df[i].home_team, arg_df[i].away_team} :
              i \in { j \in CountedScorePlays : arg_df[j].game_id = g } }

\* The games decided by eight points or fewer.
OneScoreGames ==
    { g \in { arg_df[i].game_id : i \in CountedScorePlays } :
        \A a \in TeamsOf(g), b \in TeamsOf(g) : FinalScore(g, a) - FinalScore(g, b) <= 8 }

GiantsOneScoreGames == { g \in OneScoreGames : "NYG" \in TeamsOf(g) }

\* C26: league_win_pct is exactly 50 whenever the data holds a one-score
\* game without the Giants, whatever the scores: each such game adds two
\* team-games and one win; and expected_wins is always half the number of
\* the Giants' one-score games.
C26_LeagueWinPctIsFifty ==
    (entry = "one_score_game_record" /\ pc = "done") =>
        /\ OneScoreGames # GiantsOneScoreGames =>
               /\ result.league_win_pct = Float(50, 1)
               /\ SumValues(result.team_games) =
                      2 * Cardinality(OneScoreGames \ GiantsOneScoreGames)
               /\ SumValues(result.team_wins) =
                      Cardinality(OneScoreGames \ GiantsOneScoreGames)
        /\ 2 * result.expected_wins.num =
               Cardinality(GiantsOneScoreGames) * result.expected_wins.den

\* A tied league game, a league game the away team wins and a one-score
\* game of the Giants: four team-games, two wins, half a win expected.
C26_Witness ==
    /\ entry = "one_score_game_record"
    /\ pc = "done"
    /\ OneScoreGames \ GiantsOneScoreGames = {4, 5}
    /\ result.team_wins["BUF"] = 1
    /\ result.team_wins["KC"] = 0
    /\ result.league_win_pct = Float(50, 1)
    /\ result.giants_total = 1
    /\ result.expected_wins = Float(1, 2)

\* C27: every one-score game of the Giants is classified as W or as L, as W
\* if and only if the Giants' final score is strictly greater than the
\* opponent's (a tie is an L), and giants_wins + giants_losses is the number
\* of the Giants' one-score games.
C27_GiantsGamesWonOrLost ==
    (entry = "one_score_game_record" /\ pc = "done") =>
        /\ { result.giants_games[i].game_id : i \in DOMAIN result.giants_games }
               = GiantsOneScoreGames
        /\ Len(result.giants_games) = Cardinality(GiantsOneScoreGames)
        /\ DOMAIN result.result_column = DOMAIN result.giants_games
        /\ \A i \in DOMAIN result.giants_games :
               LET g == result.giants_games[i].game_id
               IN  /\ result.result_column[i] \in {"W", "L"}
                   /\ result.result_column[i] = "W" <=>
                          \A t \in TeamsOf(g) \ {"NYG"} :
                              FinalScore(g, "NYG") > FinalScore(g, t)
        /\ result.giants_wins + result.giants_losses = result.giants_total
        /\ result.giants_total = Cardinality(GiantsOneScoreGames)

\* The Giants win a one-score game at home, win one away and tie one: two
\* wins and a loss.
C27_Witness ==
    /\ entry = "one_score_game_record"
    /\ pc = "done"
    /\ GiantsOneScoreGames = {1, 2, 8}
    /\ result.result_column = <<"W", "L", "W">>
    /\ result.giants_wins = 2
    /\ result.giants_losses = 1

====
